---- MODULE Spec2Model ----
(***************************************************************************)
(* Model of the hybrid inventory search of the furniture storefront        *)
(* (src/inventory_search.py, called from the /inventory route of           *)
(* src/main.py).                                                           *)
(*                                                                         *)
(* Representation.                                                         *)
(*  - A text (Python str) is a sequence of one-character strings.          *)
(*  - Python's None is the record None; an optional argument that is       *)
(*    present is Some(v).                                                  *)
(*  - A score (Python float) is an exact rational [n, d] in lowest terms   *)
(*    with d > 0.  IEEE rounding is not modelled: the arithmetic is the    *)
(*    exact arithmetic the floating-point code approximates.               *)
(*  - An embedding vector is a sequence of integers.  The vectors the      *)
(*    provider may return are taken from a set whose squared norms are     *)
(*    perfect squares, so that math.sqrt is exact on them.                 *)
(***************************************************************************)
EXTENDS Integers, Sequences, FiniteSets, TLC

VARIABLES
    inventory,   \* the rows of the "inventory" table, in SELECT order
    pc,          \* where the search invocation stands
    query,       \* search's argument query (as passed by the caller)
    top_k,       \* search's argument top_k (as passed by the caller)
    items,       \* local: the snapshot list(self.db.get_all_data("inventory"))
    query_tokens,         \* local: _normalize_tokens(query)
    item_tokens_list,     \* local: the tokens of each item's composite text
    category_tokens_list, \* local: the tokens of each item's category
    calls,       \* the external calls the current invocation has made, in order
    vectors,     \* local: [d.embedding for d in response.data]
    scores,      \* local: the scores computed by each iteration of the loop
    ranked,      \* local: results after results.sort(...), before truncation
    results,     \* the value search returned (None while it has returned nothing)
    error,       \* the exception search raised (None while it has raised nothing)
    threads,     \* concurrent invocations of search: the frame of each thread
    lists,       \* the list objects their local "results" names, by identity
    fn,          \* the function last applied on its own
    arg,         \* the arguments the functions are applied to
    out,         \* the value each function returned, by name
    db,          \* the tables the web requests read and write
    reqs,        \* the web requests in flight: the frame of each
    hist         \* what the requests have done so far (for the properties)

\* the variables of the one search invocation followed step by step
searchVars == <<inventory, pc, query, top_k, items, query_tokens,
                item_tokens_list, category_tokens_list, calls, vectors, scores,
                ranked, results, error>>

\* the variables of the web requests
webVars == <<db, reqs, hist>>

\* the variables a single search invocation does not touch

otherVars == <<threads, lists, fn, arg, out, webVars>>

vars == <<searchVars, otherVars>>

-----------------------------------------------------------------------------
(* Bounds of the model *)

\* largest number of rows of the inventory table
MaxItems == 2

\* largest value of top_k a caller passes (the smallest is -1)
MaxTopK == 1

\* the longest text and the longest word passed to a tokenizer, and the
\* largest token set passed to a score
MaxTextLen == 4
MaxWordLen == 4
MaxTokens == 2

\* the number of threads that call search at once
MaxThreads == 2

\* the number of web requests handled at once
MaxRequests == 2

-----------------------------------------------------------------------------
(* Python values *)

None == [isNone |-> TRUE]

Some(v) == [isNone |-> FALSE, v |-> v]

Min(a, b) == IF a <= b THEN a ELSE b

Max(a, b) == IF a >= b THEN a ELSE b

Abs(a) == IF a < 0 THEN -a ELSE a

RECURSIVE Gcd(_, _)
Gcd(a, b) == IF b = 0 THEN a ELSE Gcd(b, a % b)

\* the float n/d (d # 0), in lowest terms with a positive denominator
Rat(n, d) ==
    LET g == Gcd(Abs(n), Abs(d))
        s == IF d < 0 THEN -1 ELSE 1
    IN  [n |-> (s * n) \div g, d |-> (s * d) \div g]

Zero == Rat(0, 1)

One == Rat(1, 1)

RAdd(a, b) == Rat(a.n * b.d + b.n * a.d, a.d * b.d)

RMul(a, b) == Rat(a.n * b.n, a.d * b.d)

RLess(a, b) == a.n * b.d < b.n * a.d

RLeq(a, b) == a.n * b.d <= b.n * a.d

\* Python's max(a, b): b only if it is greater than a
RMax(a, b) == IF RLess(a, b) THEN b ELSE a

\* math.sqrt on a perfect square
Sqrt(n) == CHOOSE r \in 0..n : r * r = n

-----------------------------------------------------------------------------
(* Text: str.strip, str.lower, re.findall(r"\w+", ...), " ".join *)

UpperCase == <<"A", "B", "C", "D", "E", "F", "G", "H", "I", "J", "K", "L", "M",
               "N", "O", "P", "Q", "R", "S", "T", "U", "V", "W", "X", "Y", "Z">>

LowerCase == <<"a", "b", "c", "d", "e", "f", "g", "h", "i", "j", "k", "l", "m",
               "n", "o", "p", "q", "r", "s", "t", "u", "v", "w", "x", "y", "z">>

Digits == {"0", "1", "2", "3", "4", "5", "6", "7", "8", "9"}

Range(s) == {s[i] : i \in DOMAIN s}

\* the characters \w matches
WordChars == Range(UpperCase) \cup Range(LowerCase) \cup Digits \cup {"_"}

\* the characters str.strip() removes
Whitespace == {" ", "\t", "\n"}

\* the lower-case letter of each upper-case letter
LowerOf == [c \in Range(UpperCase) |->
               LowerCase[CHOOSE i \in DOMAIN UpperCase : UpperCase[i] = c]]

\* c.lower()
LowerChar(c) == IF c \in DOMAIN LowerOf THEN LowerOf[c] ELSE c

\* t.lower()
Lower(t) == [i \in DOMAIN t |-> LowerChar(t[i])]

RECURSIVE LStrip(_)
LStrip(t) ==
    IF t # <<>> /\ Head(t) \in Whitespace THEN LStrip(Tail(t)) ELSE t

RECURSIVE RStrip(_)
RStrip(t) ==
    IF t # <<>> /\ t[Len(t)] \in Whitespace
    THEN RStrip(SubSeq(t, 1, Len(t) - 1))
    ELSE t

\* text.strip()
Strip(t) == RStrip(LStrip(t))

\* re.findall(r"\w+", text): the maximal runs of word characters, in order;
\* cur is the run being read at position i
RECURSIVE FindWords(_, _, _)
FindWords(text, i, cur) ==
    IF i > Len(text)
    THEN IF cur = <<>> THEN <<>> ELSE <<cur>>
    ELSE IF text[i] \in WordChars
         THEN FindWords(text, i + 1, Append(cur, text[i]))
         ELSE (IF cur = <<>> THEN <<>> ELSE <<cur>>)
              \o FindWords(text, i + 1, <<>>)

\* " ".join(parts)
RECURSIVE Join(_)
Join(parts) ==
    IF parts = <<>> THEN <<>>
    ELSE IF Len(parts) = 1 THEN parts[1]
    ELSE parts[1] \o <<" ">> \o Join(Tail(parts))

\* [p for p in parts if p]
RECURSIVE NonEmpty(_)
NonEmpty(parts) ==
    IF parts = <<>> THEN <<>>
    ELSE IF Head(parts) = <<>> THEN NonEmpty(Tail(parts))
    ELSE <<Head(parts)>> \o NonEmpty(Tail(parts))

\* text or ""
OrEmpty(t) == IF t.isNone THEN <<>> ELSE t.v

-----------------------------------------------------------------------------
(* InventorySearch's helpers *)

\* if x: an environment variable that is set and not empty
Truthy(x) == ~x.isNone /\ x.v # <<>>

\* a or b
Or(a, b) == IF Truthy(a) THEN a ELSE b

\* os.path.exists(path)
Exists(files, path) == path \in DOMAIN files /\ ~files[path].isNone

\* OpenAI(api_key=key), and OpenAI() when key is None
OpenAI(key) == [api_key |-> key]

\* the key file is looked at before OPENAI_API_KEY
_build_client_fileFirst(environ, files) ==
    LET direct_key == environ["OPENAI_API_KEY"]
        key_path == Or(environ["OPENAI_API_KEY_PATH"],
                       environ["openai.api_key_path"])
        file_key == Strip(files[key_path.v].v)
    IN  IF Truthy(key_path) /\ Exists(files, key_path.v) /\ file_key # <<>>
        THEN OpenAI(Some(file_key))
        ELSE IF Truthy(direct_key)
             THEN OpenAI(Some(Strip(direct_key.v)))
             ELSE OpenAI(None)

_build_client(environ, files) ==
    LET direct_key == environ["OPENAI_API_KEY"]
        key_path == Or(environ["OPENAI_API_KEY_PATH"],
                       environ["openai.api_key_path"])
    IN  IF Truthy(direct_key)
        THEN OpenAI(Some(Strip(direct_key.v)))
        ELSE IF Truthy(key_path) /\ Exists(files, key_path.v)
             THEN LET file_key == Strip(files[key_path.v].v)
                  IN  IF file_key # <<>>
                      THEN OpenAI(Some(file_key))
                      ELSE OpenAI(None)
             ELSE OpenAI(None)

\* the tokens keep the case of the text
_normalize_tokens_caseKept(text) ==
    LET tokens == FindWords(OrEmpty(text), 1, <<>>)
    IN  {tokens[i] : i \in {j \in DOMAIN tokens : tokens[j] # <<>>}}

\* re.findall(r"\w+", text or ""), each token lower-cased, as a set
_normalize_tokens(text) ==
    LET tokens == FindWords(OrEmpty(text), 1, <<>>)
    IN  {Lower(tokens[i]) : i \in {j \in DOMAIN tokens : tokens[j] # <<>>}}

\* the dot product is divided by the norm of a alone
_cosine_similarity_halfNormalised(a, b) ==
    IF a = <<>> \/ b = <<>> \/ Len(a) # Len(b)
    THEN Zero
    ELSE LET sum[i \in 0..Len(a)] ==
                 IF i = 0 THEN [dot |-> 0, na |-> 0, nb |-> 0]
                 ELSE [dot |-> sum[i - 1].dot + a[i] * b[i],
                       na  |-> sum[i - 1].na + a[i] * a[i],
                       nb  |-> sum[i - 1].nb + b[i] * b[i]]
         IN  IF sum[Len(a)].na = 0 \/ sum[Len(a)].nb = 0
             THEN Zero
             ELSE Rat(sum[Len(a)].dot, Sqrt(sum[Len(a)].na))

\* the lengths are not compared: the loop stops at the shorter vector, as
\* zip does
_cosine_similarity_noLengthCheck(a, b) ==
    IF a = <<>> \/ b = <<>>
    THEN Zero
    ELSE LET m == Min(Len(a), Len(b))
             sum[i \in 0..m] ==
                 IF i = 0 THEN [dot |-> 0, na |-> 0, nb |-> 0]
                 ELSE [dot |-> sum[i - 1].dot + a[i] * b[i],
                       na  |-> sum[i - 1].na + a[i] * a[i],
                       nb  |-> sum[i - 1].nb + b[i] * b[i]]
         IN  IF sum[m].na = 0 \/ sum[m].nb = 0
             THEN Zero
             ELSE Rat(sum[m].dot, Sqrt(sum[m].na) * Sqrt(sum[m].nb))

_cosine_similarity(a, b) ==
    IF a = <<>> \/ b = <<>> \/ Len(a) # Len(b)
    THEN Zero
    ELSE LET sum[i \in 0..Len(a)] ==
                 IF i = 0 THEN [dot |-> 0, na |-> 0, nb |-> 0]
                 ELSE [dot |-> sum[i - 1].dot + a[i] * b[i],
                       na  |-> sum[i - 1].na + a[i] * a[i],
                       nb  |-> sum[i - 1].nb + b[i] * b[i]]
             dot == sum[Len(a)].dot
             na == sum[Len(a)].na
             nb == sum[Len(a)].nb
         IN  IF na = 0 \/ nb = 0
             THEN Zero
             ELSE Rat(dot, Sqrt(na) * Sqrt(nb))

\* getattr(item, name, "") or "": the column of a raw row, "" when the
\* attribute is missing or None
Attr(row, name) ==
    IF name \in DOMAIN row THEN OrEmpty(row[name]) ELSE <<>>

\* the four columns _item_text reads from a raw row (lines 89-92)
AsItem(row) ==
    [id          |-> Attr(row, "id"),
     name        |-> Attr(row, "name"),
     description |-> Attr(row, "description"),
     category    |-> Attr(row, "category")]

\* the category is left out of the composite text
_item_text_noCategory(item) ==
    Strip(Join(NonEmpty(<<item.id, item.name, item.description>>)))

\* the empty parts are joined too
_item_text_unfiltered(item) ==
    Strip(Join(<<item.id, item.name, item.description, item.category>>))

\* a row's column as getattr(item, name, "") or "" reads it
_item_text(item) ==
    LET item_id == item.id
        name == item.name
        desc == item.description
        category == item.category
    IN  Strip(Join(NonEmpty(<<item_id, name, desc, category>>)))

\* the length of a longest common subsequence of s and t
LcsLen(s, t) ==
    LET f[i \in 0..Len(s), j \in 0..Len(t)] ==
            IF i = 0 \/ j = 0 THEN 0
            ELSE IF s[i] = t[j] THEN f[i - 1, j - 1] + 1
            ELSE Max(f[i - 1, j], f[i, j - 1])
    IN  f[Len(s), Len(t)]

\* a ratio that measures distance where fuzz.ratio measures similarity
fuzz_ratio_distance(q, t) ==
    IF Len(q) + Len(t) = 0
    THEN Rat(0, 1)
    ELSE Rat(100 * (Len(q) + Len(t) - 2 * LcsLen(q, t)), Len(q) + Len(t))

\* rapidfuzz's fuzz.ratio(q, t): the normalised Indel similarity, 0..100
fuzz_ratio(q, t) ==
    IF Len(q) + Len(t) = 0
    THEN Rat(100, 1)
    ELSE Rat(100 * 2 * LcsLen(q, t), Len(q) + Len(t))

-----------------------------------------------------------------------------
(* The tokenizer of the listing filter, src/main.py *)

\* w.endswith(suffix)
EndsWith(w, suffix) ==
    /\ Len(w) >= Len(suffix)
    /\ SubSeq(w, Len(w) - Len(suffix) + 1, Len(w)) = suffix

\* the endings are stripped from words of three characters as well
normalize_word_from3(word) ==
    LET w == Lower(word)
    IN  IF Len(w) >= 3 /\ EndsWith(w, <<"e", "s">>)
        THEN SubSeq(w, 1, Len(w) - 2)
        ELSE IF Len(w) >= 3 /\ EndsWith(w, <<"s">>)
             THEN SubSeq(w, 1, Len(w) - 1)
             ELSE w

normalize_word(word) ==
    LET w == Lower(word)
    IN  IF Len(w) > 3 /\ EndsWith(w, <<"e", "s">>)
        THEN SubSeq(w, 1, Len(w) - 2)
        ELSE IF Len(w) > 3 /\ EndsWith(w, <<"s">>)
             THEN SubSeq(w, 1, Len(w) - 1)
             ELSE w

\* the words are lower-cased and no ending is stripped
text_to_normalized_tokens_unstripped(text) ==
    LET words == FindWords(OrEmpty(text), 1, <<>>)
    IN  {Lower(words[i]) : i \in {j \in DOMAIN words : words[j] # <<>>}}

\* {normalize_word(w) for w in re.findall(r"\w+", (text or "")) if w}
text_to_normalized_tokens(text) ==
    LET words == FindWords(OrEmpty(text), 1, <<>>)
    IN  {normalize_word(words[i]) :
            i \in {j \in DOMAIN words : words[j] # <<>>}}

-----------------------------------------------------------------------------
(* The inputs of the model *)

Text1 == <<"1">>
TextOakChair == <<"O", "a", "k", " ", "C", "h", "a", "i", "r">>
TextOak == <<"o", "a", "k">>
TextRoom == <<"R", "o", "o", "m">>
Text2 == <<"2">>
TextBed == <<"B", "e", "d">>
TextBedroom == <<"B", "e", "d", "r", "o", "o", "m">>
Text3 == <<"3">>
TextChairs == <<"c", "h", "a", "i", "r", "s">>
TextRedChair == <<"r", "e", "d", " ", "c", "h", "a", "i", "r">>

\* the rows the inventory table may hold, in insertion order
Pool ==
    << [id |-> Text1, name |-> TextOakChair, description |-> TextOak,
        category |-> TextRoom],
       [id |-> Text2, name |-> TextBed, description |-> <<>>,
        category |-> TextBedroom],
       [id |-> Text3, name |-> TextChairs, description |-> TextRedChair,
        category |-> <<>>] >>

\* the same rows with a second bed that differs from the first in its id
Text4 == <<"4">>
RankPool ==
    << Pool[1], Pool[2],
       [id |-> Text4, name |-> TextBed, description |-> <<>>,
        category |-> TextBedroom],
       Pool[3] >>

\* the rows of s whose index is in keep, in order
RECURSIVE Select(_, _, _)
Select(s, keep, i) ==
    IF i > Len(s) THEN <<>>
    ELSE (IF i \in keep THEN <<s[i]>> ELSE <<>>) \o Select(s, keep, i + 1)

\* the inventory tables: at most MaxItems rows of the pool
Catalogs ==
    {Select(Pool, keep, 1) :
        keep \in {k \in SUBSET DOMAIN Pool : Cardinality(k) <= MaxItems}}

\* the queries a caller passes
Queries ==
    {None,
     Some(<<>>),
     Some(<<" ", "\t">>),
     Some(<<"c", "h", "a", "i", "r">>),
     Some(<<" ", "B", "e", "d", " ">>),
     Some(<<"b", "e", "d", " ", "r", "o", "o", "m">>),
     Some(<<"T", "V">>)}

\* the scenario of the end-to-end example: one row and two queries
TextSolidOak ==
    <<"s", "o", "l", "i", "d", " ", "o", "a", "k", " ",
      "d", "i", "n", "i", "n", "g", " ", "c", "h", "a", "i", "r">>
TextLivingRoom ==
    <<"L", "i", "v", "i", "n", "g", " ", "R", "o", "o", "m">>
OakChairItem ==
    [id |-> Text1, name |-> TextOakChair, description |-> TextSolidOak,
     category |-> TextLivingRoom]
ScenarioQueries ==
    {Some(<<"c", "h", "a", "i", "r">>),
     Some(<<"z", "z", "q", "q", "x", "x">>)}

\* the values of top_k a caller passes
TopKs == {None} \cup {Some(k) : k \in -1..MaxTopK}

\* the embedding vectors the provider may return: empty, of another length,
\* all-zero, and vectors whose cosines are 1, 0, -1, 3/5, 4/5 and -3/5
Vectors == {<<>>, <<1>>, <<0, 0>>, <<1, 0>>, <<0, 1>>, <<-1, 0>>, <<3, 4>>}

\* the sequences of length n over S
RECURSIVE SeqsOfLen(_, _)
SeqsOfLen(S, n) ==
    IF n = 0 THEN {<<>>}
    ELSE {<<x>> \o s : x \in S, s \in SeqsOfLen(S, n - 1)}

\* what the provider may answer to a request of n inputs: one vector per
\* input, or fewer
Responses(n) == UNION {SeqsOfLen(Vectors, m) : m \in 0..n}

-----------------------------------------------------------------------------
(* _fuzzy_token_score *)

\* the tokens tokens_fuzzy_match is called with: "chair" and "chain" have
\* ratio 80, "chair" and "chairs" 1000/11, "bed" and the others 0
MatchUniverse ==
    {<<"c", "h", "a", "i", "r">>, <<"c", "h", "a", "i", "n">>, TextChairs,
     <<"b", "e", "d">>}

\* every token of the queries, of the pool's rows, of the scenario's row and
\* of the calls of tokens_fuzzy_match
KnownTokens ==
    UNION ( {_normalize_tokens(q) : q \in Queries \cup ScenarioQueries}
            \cup {MatchUniverse, {Text4}}
            \cup {_normalize_tokens(Some(_item_text(OakChairItem))),
                  _normalize_tokens(Some(OakChairItem.category))}
            \cup {_normalize_tokens(Some(_item_text(Pool[i]))) : i \in DOMAIN Pool}
            \cup {_normalize_tokens(Some(Pool[i].category)) : i \in DOMAIN Pool} )

\* the function with domain S that maps t to fuzz_ratio(q, t)
RECURSIVE RatioRow(_, _)
RatioRow(q, S) ==
    IF S = {} THEN <<>>
    ELSE LET t == CHOOSE y \in S : TRUE
         IN  (t :> fuzz_ratio(q, t)) @@ RatioRow(q, S \ {t})

\* the function with domain Q that maps q to RatioRow(q, S)
RECURSIVE RatioTable(_, _)
RatioTable(Q, S) ==
    IF Q = {} THEN <<>>
    ELSE LET q == CHOOSE y \in Q : TRUE
         IN  (q :> RatioRow(q, S)) @@ RatioTable(Q \ {q}, S)

\* fuzz.ratio tabulated once over the tokens of the model
KnownRatios == RatioTable(KnownTokens, KnownTokens)

\* score = fuzz.ratio(q, t)
Ratio(q, t) ==
    IF q \in KnownTokens /\ t \in KnownTokens
    THEN KnownRatios[q][t]
    ELSE fuzz_ratio(q, t)

\* the ratio of one item token stands for the best ratio
RECURSIVE BestRatio_first(_, _, _)
BestRatio_first(q, item_tokens, best) ==
    IF item_tokens = {}
    THEN best
    ELSE Ratio(q, CHOOSE x \in item_tokens : TRUE)

\* the inner loop of _fuzzy_token_score: the best ratio of q over item_tokens
RECURSIVE BestRatio(_, _, _)
BestRatio(q, item_tokens, best) ==
    IF item_tokens = {}
    THEN best
    ELSE LET t == CHOOSE x \in item_tokens : TRUE
             score == Ratio(q, t)
         IN  BestRatio(q, item_tokens \ {t},
                       IF RLess(best, score) THEN score ELSE best)

\* the outer loop of _fuzzy_token_score: total_best over the query tokens
RECURSIVE TotalBest(_, _)
TotalBest(q_tokens, item_tokens) ==
    IF q_tokens = {}
    THEN Zero
    ELSE LET q == CHOOSE x \in q_tokens : TRUE
         IN  RAdd(BestRatio(q, item_tokens, Zero),
                  TotalBest(q_tokens \ {q}, item_tokens))

\* the total is not averaged over the query tokens
_fuzzy_token_score_total(q_tokens, item_tokens) ==
    IF q_tokens = {} \/ item_tokens = {}
    THEN Zero
    ELSE RMul(TotalBest(q_tokens, item_tokens), Rat(1, 100))

_fuzzy_token_score(q_tokens, item_tokens) ==
    IF q_tokens = {} \/ item_tokens = {}
    THEN Zero
    ELSE RMul(TotalBest(q_tokens, item_tokens),
              Rat(1, 100 * Cardinality(q_tokens)))

-----------------------------------------------------------------------------
(* tokens_fuzzy_match, src/main.py *)

\* the inner loop: some t of item_tokens has fuzz.ratio(q, t) >= threshold
RECURSIVE AnyItemToken(_, _, _)
AnyItemToken(q, item_tokens, threshold) ==
    IF item_tokens = {}
    THEN FALSE
    ELSE LET t == CHOOSE x \in item_tokens : TRUE
         IN  IF RLeq(Rat(threshold, 1), Ratio(q, t))
             THEN TRUE
             ELSE AnyItemToken(q, item_tokens \ {t}, threshold)

\* a ratio equal to the threshold is no match
tokens_fuzzy_match_strict(q_tokens, item_tokens, threshold) ==
    \E q \in q_tokens, t \in item_tokens :
        RLess(Rat(threshold, 1), Ratio(q, t))

RECURSIVE tokens_fuzzy_match(_, _, _)
tokens_fuzzy_match(q_tokens, item_tokens, threshold) ==
    IF q_tokens = {}
    THEN FALSE
    ELSE LET q == CHOOSE x \in q_tokens : TRUE
         IN  IF AnyItemToken(q, item_tokens, threshold)
             THEN TRUE
             ELSE tokens_fuzzy_match(q_tokens \ {q}, item_tokens, threshold)

-----------------------------------------------------------------------------
(* InventorySearch.search: the scoring loop, the sort and the truncation *)

\* the overlap is divided by the number of item tokens
ExactScore_overItem(q_tokens, tokens) ==
    IF q_tokens # {}
    THEN Rat(Cardinality(q_tokens \cap tokens), Max(1, Cardinality(tokens)))
    ELSE Zero

\* float(len(q_tokens & tokens)) / float(len(q_tokens)) if q_tokens
\* else 0.0
ExactScore(q_tokens, tokens) ==
    IF q_tokens # {}
    THEN Rat(Cardinality(q_tokens \cap tokens), Cardinality(q_tokens))
    ELSE Zero

\* the weights of the semantic and the keyword score exchanged
CombinedScore_swapped(semantic_score, keyword_score, category_score) ==
    RAdd(RAdd(RMul(Rat(4, 10), semantic_score),
              RMul(Rat(3, 10), keyword_score)),
         RMul(Rat(3, 10), category_score))

\* 0.3 * semantic_score + 0.4 * keyword_score + 0.3 * category_score
CombinedScore(semantic_score, keyword_score, category_score) ==
    RAdd(RAdd(RMul(Rat(3, 10), semantic_score),
              RMul(Rat(4, 10), keyword_score)),
         RMul(Rat(3, 10), category_score))

\* a score of exactly 0.3 is kept
MeetsThreshold_inclusive(combined_score) == RLeq(Rat(3, 10), combined_score)

\* combined_score > 0.3
MeetsThreshold(combined_score) == RLess(Rat(3, 10), combined_score)

\* the fuzzy scores are left out: each token score is the exact score
ScoreItem_exactOnly(item, query_vec, item_vec, q_tokens, item_tokens, category_tokens) ==
    LET semantic_score == _cosine_similarity(query_vec, item_vec)
        keyword_score == ExactScore(q_tokens, item_tokens)
        category_score == ExactScore(q_tokens, category_tokens)
    IN  [item            |-> item,
         semantic_score  |-> semantic_score,
         keyword_score   |-> keyword_score,
         category_score  |-> category_score,
         combined_score  |->
             CombinedScore(semantic_score, keyword_score, category_score)]

\* one iteration of the loop over zip(items, item_vecs, item_tokens_list,
\* category_tokens_list) (lines 164-191)
ScoreItem(item, query_vec, item_vec, q_tokens, item_tokens, category_tokens) ==
    LET semantic_score == _cosine_similarity(query_vec, item_vec)
        exact_keyword_score == ExactScore(q_tokens, item_tokens)
        fuzzy_keyword_score == _fuzzy_token_score(q_tokens, item_tokens)
        keyword_score == RMax(exact_keyword_score, fuzzy_keyword_score)
        exact_category_score == ExactScore(q_tokens, category_tokens)
        fuzzy_category_score == _fuzzy_token_score(q_tokens, category_tokens)
        category_score == RMax(exact_category_score, fuzzy_category_score)
        combined_score ==
            CombinedScore(semantic_score, keyword_score, category_score)
    IN  [item            |-> item,
         semantic_score  |-> semantic_score,
         keyword_score   |-> keyword_score,
         category_score  |-> category_score,
         combined_score  |-> combined_score]

\* the dict appended to results for a scored item
ResultOf(sc) ==
    [item           |-> sc.item,
     semantic_score |-> sc.semantic_score,
     keyword_score  |-> sc.keyword_score,
     combined_score |-> sc.combined_score]

\* the loop stops at the first item that meets the threshold
RECURSIVE Kept_firstOnly(_)
Kept_firstOnly(scs) ==
    IF scs = <<>> THEN <<>>
    ELSE IF MeetsThreshold(Head(scs).combined_score)
         THEN <<ResultOf(Head(scs))>>
         ELSE Kept_firstOnly(Tail(scs))

\* the results list the loop builds: the scored items that meet the
\* threshold, in loop order
RECURSIVE Kept(_)
Kept(scs) ==
    IF scs = <<>> THEN <<>>
    ELSE IF MeetsThreshold(Head(scs).combined_score)
         THEN <<ResultOf(Head(scs))>> \o Kept(Tail(scs))
         ELSE Kept(Tail(scs))

\* r placed in front of the entries that are not greater
RECURSIVE InsertDesc_beforeEqual(_, _)
InsertDesc_beforeEqual(rs, r) ==
    IF rs = <<>> THEN <<r>>
    ELSE IF RLeq(Head(rs).combined_score, r.combined_score)
         THEN <<r>> \o rs
         ELSE <<Head(rs)>> \o InsertDesc_beforeEqual(Tail(rs), r)

\* r placed in the descending list rs behind every entry that is not smaller
RECURSIVE InsertDesc(_, _)
InsertDesc(rs, r) ==
    IF rs = <<>> THEN <<r>>
    ELSE IF RLess(Head(rs).combined_score, r.combined_score)
         THEN <<r>> \o rs
         ELSE <<Head(rs)>> \o InsertDesc(Tail(rs), r)

\* rs[1..n] sorted
RECURSIVE SortPrefix(_, _)
SortPrefix(rs, n) ==
    IF n = 0 THEN <<>> ELSE InsertDesc(SortPrefix(rs, n - 1), rs[n])

\* the results are left in loop order
SortDesc_unsorted(rs) == rs

\* results.sort(key=lambda r: r["combined_score"], reverse=True): stable
SortDesc(rs) == SortPrefix(rs, Len(rs))

\* top_k = 0 truncates too
Truncate_nonnegative(rs, k) ==
    IF ~k.isNone /\ k.v >= 0
    THEN SubSeq(rs, 1, Min(k.v, Len(rs)))
    ELSE rs

\* if top_k is not None and top_k > 0: results = results[:top_k]
Truncate(rs, k) ==
    IF ~k.isNone /\ k.v > 0
    THEN SubSeq(rs, 1, Min(k.v, Len(rs)))
    ELSE rs

\* the query is sent after the item texts
EmbedInputs_queryLast(q, item_texts) == item_texts \o <<q>>

\* inputs = [query] + item_texts
EmbedInputs(q, item_texts) == <<q>> \o item_texts

\* query = (query or "").strip()
StrippedQuery(q) == Strip(OrEmpty(q))

\* the whitespace-only query is taken as it came
BlankQuery_unstripped(q) == OrEmpty(q) = <<>>

\* query = (query or "").strip(); if not query
BlankQuery(q) == StrippedQuery(q) = <<>>

\* the snapshot is never taken to be empty
EmptyCatalog_unchecked(its) == FALSE

\* if not items
EmptyCatalog(its) == its = <<>>

ItemTexts(its) == [i \in DOMAIN its |-> _item_text(its[i])]

\* item_tokens_list: the tokens of each item's composite text
RECURSIVE ItemTokensList(_)
ItemTokensList(its) ==
    IF its = <<>> THEN <<>>
    ELSE <<_normalize_tokens(Some(_item_text(Head(its))))>>
         \o ItemTokensList(Tail(its))

\* a category_tokens_list built from the composite text
RECURSIVE CategoryTokensList_fullText(_)
CategoryTokensList_fullText(its) ==
    IF its = <<>> THEN <<>>
    ELSE <<_normalize_tokens(Some(_item_text(Head(its))))>>
         \o CategoryTokensList_fullText(Tail(its))

\* category_tokens_list: the tokens of each item's category alone
RECURSIVE CategoryTokensList(_)
CategoryTokensList(its) ==
    IF its = <<>> THEN <<>>
    ELSE <<_normalize_tokens(Some(Head(its).category))>>
         \o CategoryTokensList(Tail(its))

\* the scores of the loop, one per element of the zip
LoopScores(its, query_vec, item_vecs, q_tokens, tokens_list, cat_tokens_list) ==
    [i \in 1..Min(Len(its), Len(item_vecs)) |->
        ScoreItem(its[i], query_vec, item_vecs[i], q_tokens,
                  tokens_list[i], cat_tokens_list[i])]

\* the external calls search makes
GetAllData == [op |-> "get_all_data", input |-> <<>>]

EmbeddingsCreate(inputs) == [op |-> "embeddings.create", input |-> inputs]

-----------------------------------------------------------------------------
(* The state machine *)

Init ==
    /\ inventory \in Catalogs
    /\ pc = "idle"
    /\ query = None
    /\ top_k = None
    /\ items = <<>>
    /\ query_tokens = {}
    /\ item_tokens_list = <<>>
    /\ category_tokens_list = <<>>
    /\ calls = <<>>
    /\ vectors = <<>>
    /\ scores = <<>>
    /\ ranked = <<>>
    /\ results = None
    /\ error = None
    /\ threads = <<>>
    /\ lists = <<>>
    /\ fn = "none"
    /\ arg = <<>>
    /\ out = <<>>
    /\ db = <<>>
    /\ reqs = <<>>
    /\ hist = <<>>

\* search(query, top_k) up to its first return or to the embedding request
\* (lines 128-154)
search(q, k) ==
    /\ pc = "idle"
    /\ query' = q
    /\ top_k' = k
    /\ vectors' = <<>>
    /\ scores' = <<>>
    /\ ranked' = <<>>
    /\ error' = None
    /\ UNCHANGED <<inventory, otherVars>>
    /\ IF BlankQuery(q)
       THEN /\ pc' = "returned"
            /\ results' = Some(<<>>)
            /\ calls' = <<>>
            /\ items' = <<>>
            /\ UNCHANGED <<query_tokens, item_tokens_list, category_tokens_list>>
       ELSE IF EmptyCatalog(inventory)
            THEN /\ pc' = "returned"
                 /\ results' = Some(<<>>)
                 /\ calls' = <<GetAllData>>
                 /\ items' = inventory
                 /\ UNCHANGED <<query_tokens, item_tokens_list,
                                category_tokens_list>>
            ELSE /\ pc' = "embedding"
                 /\ results' = None
                 /\ items' = inventory
                 /\ query_tokens' = _normalize_tokens(Some(StrippedQuery(q)))
                 /\ item_tokens_list' = ItemTokensList(inventory)
                 /\ category_tokens_list' = CategoryTokensList(inventory)
                 /\ calls' = <<GetAllData,
                               EmbeddingsCreate(
                                   EmbedInputs(StrippedQuery(q),
                                               ItemTexts(inventory)))>>

\* the embedding request returns vecs: search scores, filters, sorts,
\* truncates and returns (lines 156-208); vectors[0] of an empty response
\* raises IndexError
embeddings_create_returns(vecs) ==
    /\ pc = "embedding"
    /\ vectors' = vecs
    /\ UNCHANGED <<inventory, query, top_k, items, query_tokens,
                   item_tokens_list, category_tokens_list, calls, otherVars>>
    /\ IF vecs = <<>>
       THEN /\ pc' = "raised"
            /\ error' = Some("IndexError")
            /\ UNCHANGED <<scores, ranked, results>>
       ELSE LET query_vec == vecs[1]
                item_vecs == Tail(vecs)
                scs == LoopScores(items, query_vec, item_vecs, query_tokens,
                                  item_tokens_list, category_tokens_list)
                sorted == SortDesc(Kept(scs))
            IN  /\ pc' = "returned"
                /\ scores' = scs
                /\ ranked' = sorted
                /\ results' = Some(Truncate(sorted, top_k))
                /\ UNCHANGED error

\* the failed request is issued once more before the exception leaves
embeddings_create_raises_retry ==
    /\ pc = "embedding"
    /\ IF Len(calls) < 3
       THEN /\ calls' = Append(calls, calls[Len(calls)])
            /\ UNCHANGED <<pc, error>>
       ELSE /\ pc' = "raised"
            /\ error' = Some("EmbeddingProviderFailure")
            /\ UNCHANGED calls
    /\ UNCHANGED <<inventory, query, top_k, items, query_tokens,
                   item_tokens_list, category_tokens_list, vectors,
                   scores, ranked, results, otherVars>>

\* the embedding request raises: the exception leaves search (lines 151-154
\* are in no try block)
embeddings_create_raises ==
    /\ pc = "embedding"
    /\ pc' = "raised"
    /\ error' = Some("EmbeddingProviderFailure")
    /\ UNCHANGED <<inventory, query, top_k, items, query_tokens,
                   item_tokens_list, category_tokens_list, calls, vectors,
                   scores, ranked, results, otherVars>>

\* the caller has the list or the exception: the frame of search and its
\* locals are gone (src/main.py:430-431 keeps only the items)
search_exit ==
    /\ pc \in {"returned", "raised"}
    /\ pc' = "idle"
    /\ query' = None
    /\ top_k' = None
    /\ items' = <<>>
    /\ query_tokens' = {}
    /\ item_tokens_list' = <<>>
    /\ category_tokens_list' = <<>>
    /\ calls' = <<>>
    /\ vectors' = <<>>
    /\ scores' = <<>>
    /\ ranked' = <<>>
    /\ results' = None
    /\ error' = None
    /\ UNCHANGED <<inventory, otherVars>>

Next ==
    \/ \E q \in Queries, k \in TopKs : search(q, k)
    \/ /\ pc = "embedding"
       /\ \E vecs \in Responses(Len(items) + 1) :
              embeddings_create_returns(vecs)
    \/ embeddings_create_raises
    \/ search_exit

Spec == Init /\ [][Next]_vars

-----------------------------------------------------------------------------
(* The end-to-end scenario: the same search over a table of one row *)

\* no search is running: the locals are empty
Idle ==
    /\ pc = "idle"
    /\ query = None
    /\ top_k = None
    /\ items = <<>>
    /\ query_tokens = {}
    /\ item_tokens_list = <<>>
    /\ category_tokens_list = <<>>
    /\ calls = <<>>
    /\ vectors = <<>>
    /\ scores = <<>>
    /\ ranked = <<>>
    /\ results = None
    /\ error = None

InitScenario ==
    /\ inventory = <<OakChairItem>>
    /\ Idle
    /\ threads = <<>>
    /\ lists = <<>>
    /\ fn = "none"
    /\ arg = <<>>
    /\ out = <<>>
    /\ db = <<>>
    /\ reqs = <<>>
    /\ hist = <<>>

NextScenario ==
    \/ \E q \in ScenarioQueries, k \in TopKs : search(q, k)
    \/ /\ pc = "embedding"
       /\ \E vecs \in Responses(Len(items) + 1) :
              embeddings_create_returns(vecs)
    \/ embeddings_create_raises
    \/ search_exit

SpecScenario == InitScenario /\ [][NextScenario]_vars

-----------------------------------------------------------------------------
(* Calls of the single functions: the argument is drawn at the start, each
   function that takes it is applied to it, and out holds what each
   returned *)

\* the sequences over S of length at most n
SeqsUpTo(S, n) == UNION {SeqsOfLen(S, m) : m \in 0..n}

TextAlphabet == {"a", "e", "s", "S", " ", "_"}
WordAlphabet == {"a", "e", "s", "S", "E"}

TextGlasses == <<"g", "l", "a", "s", "s", "e", "s">>
TextBus == <<"b", "u", "s">>
TextBOXES == <<"B", "O", "X", "E", "S">>
TextMixed == <<"B", "1", "-", "_", "b", "1", "\t", "B", "1">>

CallTexts ==
    {None}
    \cup {Some(t) : t \in SeqsUpTo(TextAlphabet, MaxTextLen)}
    \cup {Some(TextChairs), Some(TextOakChair), Some(TextRedChair),
          Some(TextSolidOak), Some(TextGlasses), Some(TextBOXES),
          Some(TextMixed)}

CallWords ==
    SeqsUpTo(WordAlphabet, MaxWordLen)
    \cup {TextChairs, TextGlasses, TextBus, TextBOXES, TextBed}

TokenUniverse ==
    {<<"c", "h", "a", "i", "r">>, TextChairs, TextOak, <<"b", "e", "d">>,
     <<"b", "e", "d", "r", "o", "o", "m">>, <<"r", "o", "o", "m">>}

TokenSets == {S \in SUBSET TokenUniverse : Cardinality(S) <= MaxTokens}

CallQueries == {Some(TextChairs), Some(<<"c", "h", "a", "i", "r">>)}

\* the raw rows _item_text is called with: each column is NULL, empty or a
\* text as the forms store it (stripped, src/main.py:824-839 and 913-919),
\* and a row may lack the category attribute
RawRows ==
    {[id |-> i, name |-> n, description |-> d, category |-> c] :
        i \in {None, Some(<<>>), Some(Text1)},
        n \in {None, Some(<<>>), Some(TextOakChair), Some(TextBed)},
        d \in {None, Some(<<>>), Some(TextSolidOak), Some(TextOak)},
        c \in {None, Some(<<>>), Some(TextRoom), Some(TextLivingRoom)}}
    \cup {[id |-> Some(Text1), name |-> Some(TextBed)],
          [name |-> Some(TextBed), description |-> Some(TextOak)]}

\* the environments and the files _build_client runs in: a variable is
\* unset, empty or set; a key file is absent, empty, blank or holds a key
PathP == <<"p">>
PathQ == <<"q">>

Environs ==
    {("OPENAI_API_KEY" :> k) @@ ("OPENAI_API_KEY_PATH" :> p)
         @@ ("openai.api_key_path" :> q) :
        k \in {None, Some(<<>>), Some(<<"k">>), Some(<<" ", "k", "\n">>)},
        p \in {None, Some(<<>>), Some(PathP), Some(PathQ)},
        q \in {None, Some(<<>>), Some(PathP), Some(PathQ)}}

FileSystems ==
    {(PathP :> fp) @@ (PathQ :> fq) :
        fp \in {None, Some(<<>>), Some(<<" ", "\n">>), Some(<<"f", "\n">>)},
        fq \in {None, Some(<<"g">>)}}

MatchSets == {S \in SUBSET MatchUniverse : Cardinality(S) <= MaxTokens}

\* threshold=80 when the caller passes none
DefaultThreshold == 80

\* the thresholds a caller passes, None for the default
Thresholds == {None, Some(0), Some(91), Some(100)}

\* what a call is made with: a text, a word, two token sets, two token sets
\* and a threshold, or the arguments of search
CallArgs ==
    {[text |-> t] : t \in CallTexts}
    \cup {[word |-> w] : w \in CallWords}
    \cup {[query_tokens |-> Q, item_tokens |-> I] : Q, I \in TokenSets}
    \cup {[q_tokens |-> Q, item_tokens |-> I, threshold |-> th] :
             Q \in MatchSets, I \in MatchSets, th \in Thresholds}
    \cup {[item |-> row] : row \in RawRows}
    \cup {[environ |-> e, files |-> f] : e \in Environs, f \in FileSystems}
    \cup {[query |-> q, top_k |-> None] : q \in CallQueries}

NoOutputs == [name \in {} |-> None]

InitCalls ==
    /\ inventory = <<Pool[3]>>
    /\ Idle
    /\ threads = <<>>
    /\ lists = <<>>
    /\ fn = "none"
    /\ arg \in CallArgs
    /\ out = NoOutputs
    /\ db = <<>>
    /\ reqs = <<>>
    /\ hist = <<>>

\* name(arg) returns value
Return(name, value) ==
    /\ pc = "idle"
    /\ name \notin DOMAIN out
    /\ fn' = name
    /\ out' = (name :> value) @@ out
    /\ UNCHANGED <<searchVars, threads, lists, arg, webVars>>

call_normalize_tokens ==
    /\ "text" \in DOMAIN arg
    /\ Return("_normalize_tokens", _normalize_tokens(arg.text))

call_text_to_normalized_tokens ==
    /\ "text" \in DOMAIN arg
    /\ Return("text_to_normalized_tokens", text_to_normalized_tokens(arg.text))

call_normalize_word ==
    /\ "word" \in DOMAIN arg
    /\ Return("normalize_word", normalize_word(arg.word))

call_fuzzy_token_score ==
    /\ "query_tokens" \in DOMAIN arg
    /\ Return("_fuzzy_token_score",
              _fuzzy_token_score(arg.query_tokens, arg.item_tokens))

\* lines 165-169 of search, the exact score of two token sets
call_exact_keyword_score ==
    /\ "query_tokens" \in DOMAIN arg
    /\ Return("exact_keyword_score",
              ExactScore(arg.query_tokens, arg.item_tokens))

call_build_client ==
    /\ "environ" \in DOMAIN arg
    /\ Return("_build_client", _build_client(arg.environ, arg.files))

call_item_text ==
    /\ "item" \in DOMAIN arg
    /\ Return("_item_text", _item_text(AsItem(arg.item)))

call_tokens_fuzzy_match ==
    /\ "threshold" \in DOMAIN arg
    /\ Return("tokens_fuzzy_match",
              tokens_fuzzy_match(
                  arg.q_tokens, arg.item_tokens,
                  IF arg.threshold.isNone THEN DefaultThreshold
                  ELSE arg.threshold.v))

call_search ==
    /\ "query" \in DOMAIN arg
    /\ search(arg.query, arg.top_k)

NextCalls ==
    \/ call_normalize_tokens
    \/ call_text_to_normalized_tokens
    \/ call_normalize_word
    \/ call_fuzzy_token_score
    \/ call_exact_keyword_score
    \/ call_tokens_fuzzy_match
    \/ call_item_text
    \/ call_build_client
    \/ call_search
    \/ /\ pc = "embedding"
       /\ \E vecs \in Responses(Len(items) + 1) :
              embeddings_create_returns(vecs)
    \/ embeddings_create_raises
    \/ search_exit

SpecCalls == InitCalls /\ [][NextCalls]_vars

-----------------------------------------------------------------------------
(* Concurrent invocations of search over one table: each thread has its
   frame, the table is shared, and a thread may be interleaved with the
   others between any two of its steps *)

Threads == 1..MaxThreads

ConcCatalog == <<Pool[1], Pool[3]>>

ConcQueries == {Some(<<"c", "h", "a", "i", "r">>), Some(<<" ", "\t">>)}

\* what the provider answers to the three inputs of a request
ConcResponses ==
    {<<<<1, 0>>, a, b>> : a, b \in {<<1, 0>>, <<0, 1>>}}

\* the frame of a thread that is not in search
NoFrame ==
    [pc |-> "idle", query |-> None, top_k |-> None, items |-> <<>>,
     query_tokens |-> {}, item_tokens_list |-> <<>>,
     category_tokens_list |-> <<>>, vectors |-> <<>>, i |-> 0,
     result |-> None, error |-> None]

\* one list for all the invocations
ResultsList_shared(t) == 1

\* results = []: the list of invocation t is its own object (line 160)
ResultsList(t) == t

InitConc ==
    /\ inventory = ConcCatalog
    /\ Idle
    /\ threads = [t \in Threads |-> NoFrame]
    /\ lists = [t \in Threads |-> <<>>]
    /\ fn = "none"
    /\ arg = <<>>
    /\ out = <<>>
    /\ db = <<>>
    /\ reqs = <<>>
    /\ hist = <<>>

\* thread t enters search(q, k) and runs to its first return or to the
\* embedding request (lines 128-154)
t_search(t, q, k) ==
    /\ threads[t].pc = "idle"
    /\ threads' =
           [threads EXCEPT ![t] =
               IF BlankQuery(q)
               THEN [NoFrame EXCEPT !.pc = "returned", !.query = q,
                                    !.top_k = k, !.result = Some(<<>>)]
               ELSE IF EmptyCatalog(inventory)
                    THEN [NoFrame EXCEPT !.pc = "returned", !.query = q,
                                         !.top_k = k, !.items = inventory,
                                         !.result = Some(<<>>)]
                    ELSE [NoFrame EXCEPT
                             !.pc = "embedding", !.query = q, !.top_k = k,
                             !.items = inventory,
                             !.query_tokens =
                                 _normalize_tokens(Some(StrippedQuery(q))),
                             !.item_tokens_list = ItemTokensList(inventory),
                             !.category_tokens_list =
                                 CategoryTokensList(inventory)]]
    /\ UNCHANGED <<searchVars, lists, fn, arg, out, webVars>>

\* the request of thread t returns vecs: lines 156-160
t_embeddings_create_returns(t, vecs) ==
    /\ threads[t].pc = "embedding"
    /\ IF vecs = <<>>
       THEN /\ threads' = [threads EXCEPT ![t].pc = "raised",
                                          ![t].error = Some("IndexError")]
            /\ UNCHANGED lists
       ELSE /\ threads' = [threads EXCEPT ![t].pc = "loop",
                                          ![t].vectors = vecs,
                                          ![t].i = 1]
            /\ lists' = [lists EXCEPT ![ResultsList(t)] = <<>>]
    /\ UNCHANGED <<searchVars, fn, arg, out, webVars>>

\* the request of thread t raises
t_embeddings_create_raises(t) ==
    /\ threads[t].pc = "embedding"
    /\ threads' = [threads EXCEPT ![t].pc = "raised",
                                  ![t].error = Some("EmbeddingProviderFailure")]
    /\ UNCHANGED <<searchVars, lists, fn, arg, out, webVars>>

\* one iteration of the loop of thread t (lines 161-202)
t_loop(t) ==
    LET f == threads[t]
    IN  /\ f.pc = "loop"
        /\ f.i <= Min(Len(f.items), Len(f.vectors) - 1)
        /\ LET sc == ScoreItem(f.items[f.i], f.vectors[1], f.vectors[f.i + 1],
                               f.query_tokens, f.item_tokens_list[f.i],
                               f.category_tokens_list[f.i])
           IN  lists' =
                   IF MeetsThreshold(sc.combined_score)
                   THEN [lists EXCEPT ![ResultsList(t)] = Append(@, ResultOf(sc))]
                   ELSE lists
        /\ threads' = [threads EXCEPT ![t].i = f.i + 1]
        /\ UNCHANGED <<searchVars, fn, arg, out, webVars>>

\* the loop of thread t is over: sort, truncate, return (lines 205-208)
t_return(t) ==
    LET f == threads[t]
    IN  /\ f.pc = "loop"
        /\ f.i > Min(Len(f.items), Len(f.vectors) - 1)
        /\ lists' = [lists EXCEPT ![ResultsList(t)] = SortDesc(@)]
        /\ threads' =
               [threads EXCEPT
                   ![t].pc = "returned",
                   ![t].result =
                       Some(Truncate(SortDesc(lists[ResultsList(t)]), f.top_k))]
        /\ UNCHANGED <<searchVars, fn, arg, out, webVars>>

\* the caller of thread t has the list or the exception: the frame and
\* the list it named are gone
t_exit(t) ==
    /\ threads[t].pc \in {"returned", "raised"}
    /\ threads' = [threads EXCEPT ![t] = NoFrame]
    /\ lists' = [lists EXCEPT ![ResultsList(t)] = <<>>]
    /\ UNCHANGED <<searchVars, fn, arg, out, webVars>>

NextConc ==
    \E t \in Threads :
        \/ \E q \in ConcQueries : t_search(t, q, None)
        \/ \E vecs \in ConcResponses \cup {<<>>} :
               t_embeddings_create_returns(t, vecs)
        \/ t_embeddings_create_raises(t)
        \/ t_loop(t)
        \/ t_return(t)
        \/ t_exit(t)

SpecConc == InitConc /\ [][NextConc]_vars

-----------------------------------------------------------------------------
(* The password reset of src/main.py: forgot_password_send_link issues a
   token, reset_password consumes it.  Every request runs in its own thread
   with its own connection, and every statement is committed on its own
   (DBInterface._execute), so the requests interleave between statements *)

Requests == 1..MaxRequests

\* the tokens uuid.uuid4().hex may give, and a token that was never issued
ResetTokens == {"t1"}
RequestTokens == ResetTokens \cup {"t0"}

ResetUser == "u1"

\* what a request carries: a GET, or a POST with password and
\* confirm_password equal and weak or strong (password_is_strong)
RequestForms ==
    {[method |-> "GET", password |-> ""],
     [method |-> "POST", password |-> "weak"],
     [method |-> "POST", password |-> "Str0ng!pw"]}

\* the frame of a request that is not being handled
NoRequest == [pc |-> "idle"]

InitReset ==
    /\ inventory = <<>>
    /\ Idle
    /\ threads = <<>>
    /\ lists = <<>>
    /\ fn = "none"
    /\ arg = <<>>
    /\ out = <<>>
    /\ db = [password_reset_tokens |-> {},
             users |-> [u \in {ResetUser} |-> [password |-> "old"]],
             past  |-> {}]
    /\ reqs = [r \in Requests |-> NoRequest]
    /\ hist = [issued  |-> {},
               deleted |-> {},
               changes |-> [t \in ResetTokens |-> 0],
               late    |-> {}]

\* the row of token in password_reset_tokens, None when there is none
get_password_reset_token(table, token) ==
    IF \E row \in table : row.token = token
    THEN Some(CHOOSE row \in table : row.token = token)
    ELSE None

\* DELETE FROM password_reset_tokens WHERE token = ?
delete_password_reset_token(table, token) ==
    {row \in table : row.token # token}

\* the request for token ends with the given response
Respond(r, token, response) ==
    reqs' = [reqs EXCEPT ![r] =
                [pc |-> "done", token |-> token, response |-> response]]

\* forgot_password_send_link for an email that has an account: a fresh
\* token with an expiry five minutes ahead (lines 1084-1094)
forgot_password_send_link(token) ==
    /\ token \notin hist.issued
    /\ db' = [db EXCEPT !.password_reset_tokens =
                 delete_password_reset_token(@, token)
                 \cup {[token |-> token, user_id |-> ResetUser]}]
    /\ hist' = [hist EXCEPT !.issued = @ \cup {token}]
    /\ UNCHANGED <<searchVars, threads, lists, fn, arg, out, reqs>>

\* the five minutes of a token are over: from now on
\* datetime.utcnow() > expires_at (db.past holds the tokens whose expiry
\* lies in the past)
token_expires(token) ==
    /\ token \in hist.issued
    /\ token \notin db.past
    /\ db' = [db EXCEPT !.past = @ \cup {token}]
    /\ UNCHANGED <<searchVars, threads, lists, fn, arg, out, reqs, hist>>

\* reset_password(token) reads the token's row (lines 1111-1114)
reset_password_get_token(r, token, form) ==
    /\ reqs[r].pc = "idle"
    /\ LET row == get_password_reset_token(db.password_reset_tokens, token)
       IN  /\ IF row.isNone
              THEN Respond(r, token, "invalid")
              ELSE reqs' = [reqs EXCEPT ![r] =
                               [pc |-> "have_row", token |-> token,
                                method |-> form.method,
                                password |-> form.password, row |-> row.v]]
           /\ hist' = IF token \in hist.deleted
                      THEN [hist EXCEPT !.late =
                               @ \cup {IF row.isNone THEN "invalid"
                                       ELSE "accepted"}]
                      ELSE hist
    /\ UNCHANGED <<searchVars, threads, lists, fn, arg, out, db>>

\* the expiry check and the checks of the form (lines 1116-1134)
reset_password_check(r) ==
    LET f == reqs[r]
    IN  /\ f.pc = "have_row"
        /\ IF f.token \in db.past
           THEN /\ db' = [db EXCEPT !.password_reset_tokens =
                             delete_password_reset_token(@, f.token)]
                /\ hist' = [hist EXCEPT !.deleted = @ \cup {f.token}]
                /\ Respond(r, f.token, "expired")
           ELSE /\ UNCHANGED <<db, hist>>
                /\ IF f.method # "POST"
                   THEN Respond(r, f.token, "form")
                   ELSE IF f.password = "weak"
                        THEN Respond(r, f.token, "form_error")
                        ELSE reqs' = [reqs EXCEPT ![r].pc = "update"]
        /\ UNCHANGED <<searchVars, threads, lists, fn, arg, out>>

\* the user is read and the new password stored (lines 1136-1144)
reset_password_update_user(r) ==
    LET f == reqs[r]
    IN  /\ f.pc = "update"
        /\ db' = [db EXCEPT !.users[f.row.user_id].password = f.password]
        /\ hist' = [hist EXCEPT !.changes[f.token] = @ + 1]
        /\ reqs' = [reqs EXCEPT ![r].pc = "delete"]
        /\ UNCHANGED <<searchVars, threads, lists, fn, arg, out>>

\* the token is deleted and the browser sent home (lines 1145-1147)
reset_password_delete_token(r) ==
    LET f == reqs[r]
    IN  /\ f.pc = "delete"
        /\ db' = [db EXCEPT !.password_reset_tokens =
                     delete_password_reset_token(@, f.token)]
        /\ hist' = [hist EXCEPT !.deleted = @ \cup {f.token}]
        /\ Respond(r, f.token, "redirect")
        /\ UNCHANGED <<searchVars, threads, lists, fn, arg, out>>

\* the response is sent: the request is over
request_done(r) ==
    /\ reqs[r].pc = "done"
    /\ reqs' = [reqs EXCEPT ![r] = NoRequest]
    /\ UNCHANGED <<searchVars, threads, lists, fn, arg, out, db, hist>>

NextReset ==
    \/ \E token \in ResetTokens : forgot_password_send_link(token)
    \/ \E token \in ResetTokens : token_expires(token)
    \/ \E r \in Requests, token \in RequestTokens, form \in RequestForms :
           reset_password_get_token(r, token, form)
    \/ \E r \in Requests : reset_password_check(r)
    \/ \E r \in Requests : reset_password_update_user(r)
    \/ \E r \in Requests : reset_password_delete_token(r)
    \/ \E r \in Requests : request_done(r)

SpecReset == InitReset /\ [][NextReset]_vars

-----------------------------------------------------------------------------
(* The ranking: search as get_inventory calls it (top_k=None,
   src/main.py:430), over tables in which two rows differ in their id only *)

RankCatalogs ==
    {Select(RankPool, keep, 1) :
        keep \in {k \in SUBSET DOMAIN RankPool : Cardinality(k) <= MaxItems}}

RankQueries ==
    {Some(<<"?">>),
     Some(<<"c", "h", "a", "i", "r">>),
     Some(<<"b", "e", "d", " ", "r", "o", "o", "m">>),
     Some(<<"T", "V">>)}

\* the vectors of the provider: empty, and three whose cosines are 1, 0, -1
RankVectors == {<<>>, <<1, 0>>, <<0, 1>>, <<-1, 0>>}

RankResponses(n) == UNION {SeqsOfLen(RankVectors, m) : m \in 0..n}

InitRank ==
    /\ inventory \in RankCatalogs
    /\ Idle
    /\ threads = <<>>
    /\ lists = <<>>
    /\ fn = "none"
    /\ arg = <<>>
    /\ out = <<>>
    /\ db = <<>>
    /\ reqs = <<>>
    /\ hist = <<>>

NextRank ==
    \/ \E q \in RankQueries : search(q, None)
    \/ /\ pc = "embedding"
       /\ \E vecs \in RankResponses(Len(items) + 1) :
              embeddings_create_returns(vecs)
    \/ embeddings_create_raises
    \/ search_exit

SpecRank == InitRank /\ [][NextRank]_vars

-----------------------------------------------------------------------------
(* Python floats: IEEE 754 doubles, every operation rounded to the nearest
   double, ties to even.  A double that is not negative is m * 2^e with m
   zero or a natural number of Precision bits; the naturals are sequences of
   limbs, lowest first, without leading zero limbs.  Ranges the scores never
   leave (no overflow, no subnormal numbers) and non-negative operands are
   modelled *)

\* sys.float_info.mant_dig
Precision == 53

\* the limbs hold LimbBits bits each
LimbBits == 15

\* the element of a set of one element
Only(S) == CHOOSE y \in S : TRUE

RECURSIVE Exp2(_)
Exp2(k) == IF k = 0 THEN 1 ELSE 2 * Exp2(k - 1)

LimbBase == Exp2(LimbBits)

RECURSIVE BigOf(_)
BigOf(n) == IF n = 0 THEN <<>> ELSE <<n % LimbBase>> \o BigOf(n \div LimbBase)

RECURSIVE BigNormAt(_, _)
BigNormAt(a, n) ==
    IF n = 0 THEN <<>>
    ELSE IF a[n] = 0 THEN BigNormAt(a, n - 1)
    ELSE SubSeq(a, 1, n)

\* a without leading zero limbs
BigNorm(a) == Only({BigNormAt(x, Len(x))
                    : x \in {a}})

RECURSIVE BigLessFrom(_, _, _)
BigLessFrom(a, b, i) ==
    IF i = 0 THEN FALSE
    ELSE IF a[i] # b[i] THEN a[i] < b[i]
    ELSE BigLessFrom(a, b, i - 1)

BigLess(a, b) ==
    Only({IF Len(p[1]) # Len(p[2]) THEN Len(p[1]) < Len(p[2])
          ELSE BigLessFrom(p[1], p[2], Len(p[1]))
          : p \in {<<a, b>>}})

BigLeq(a, b) == ~BigLess(b, a)

\* the limb of a at place i
Limb(a, i) == IF i <= Len(a) THEN a[i] ELSE 0

RECURSIVE BigAddAt(_, _, _, _)
BigAddAt(a, b, i, c) ==
    IF i > Len(a) /\ i > Len(b)
    THEN IF c = 0 THEN <<>> ELSE <<c>>
    ELSE Only({<<x % LimbBase>> \o BigAddAt(a, b, i + 1, x \div LimbBase)
               : x \in {Limb(a, i) + Limb(b, i) + c}})

BigAdd(a, b) == Only({BigAddAt(p[1], p[2], 1, 0)
                      : p \in {<<a, b>>}})

RECURSIVE BigSubAt(_, _, _, _)
BigSubAt(a, b, i, c) ==
    IF i > Len(a) THEN <<>>
    ELSE Only({IF x < 0
               THEN <<x + LimbBase>> \o BigSubAt(a, b, i + 1, 1)
               ELSE <<x>> \o BigSubAt(a, b, i + 1, 0)
               : x \in {a[i] - Limb(b, i) - c}})

\* a - b for a >= b
BigSub(a, b) == Only({BigNorm(BigSubAt(p[1], p[2], 1, 0))
                      : p \in {<<a, b>>}})

RECURSIVE BigMulLimbAt(_, _, _, _)
BigMulLimbAt(a, d, i, c) ==
    IF i > Len(a)
    THEN IF c = 0 THEN <<>> ELSE <<c>>
    ELSE Only({<<x % LimbBase>> \o BigMulLimbAt(a, d, i + 1, x \div LimbBase)
               : x \in {a[i] * d + c}})

\* a times LimbBase
BigUp(a) == Only({IF x = <<>> THEN <<>> ELSE <<0>> \o x
                  : x \in {a}})

\* a times the limbs of b from place j on
RECURSIVE BigMulFrom(_, _, _)
BigMulFrom(a, b, j) ==
    IF j > Len(b) THEN <<>>
    ELSE BigAdd(BigNorm(BigMulLimbAt(a, b[j], 1, 0)),
                BigUp(BigMulFrom(a, b, j + 1)))

BigMul(a, b) == Only({BigMulFrom(p[1], p[2], 1)
                      : p \in {<<a, b>>}})

\* 2^k
BigExp2(k) ==
    Only({[i \in 1..(x \div LimbBits) + 1 |->
            IF i = (x \div LimbBits) + 1 THEN Exp2(x % LimbBits) ELSE 0]
          : x \in {k}})

\* a * 2^k
BigShl(a, k) == BigMul(a, BigExp2(k))

RECURSIVE BitLenSmall(_)
BitLenSmall(n) == IF n = 0 THEN 0 ELSE 1 + BitLenSmall(n \div 2)

BitLen(a) ==
    Only({IF x = <<>> THEN 0
          ELSE (Len(x) - 1) * LimbBits + BitLenSmall(x[Len(x)])
          : x \in {a}})

\* a // 2^k
BigShr(a, k) ==
    Only({BigNorm([i \in 1..(Len(p[1]) - p[2]) |->
                    (p[1][i + p[2]] \div p[3])
                    + (Limb(p[1], i + p[2] + 1) % p[3]) * p[4]])
          : p \in {<<a, k \div LimbBits, Exp2(k % LimbBits),
                     Exp2(LimbBits - (k % LimbBits))>>}})

\* bit k of a is set
BitSet(a, k) ==
    (Limb(a, (k \div LimbBits) + 1) \div Exp2(k % LimbBits)) % 2 = 1

\* some bit of a below bit k is set
BitsBelow(a, k) ==
    \/ \E i \in 1..(k \div LimbBits) : Limb(a, i) # 0
    \/ Limb(a, (k \div LimbBits) + 1) % Exp2(k % LimbBits) # 0

\* acc and the bits bit..low of the largest q with q * d <= n
RECURSIVE BigDivBits(_, _, _, _, _)
BigDivBits(n, d, bit, low, acc) ==
    IF bit < low THEN acc
    ELSE Only({IF BigLeq(BigMul(p[1], d), n)
               THEN BigDivBits(n, d, p[2], low, p[1])
               ELSE BigDivBits(n, d, p[2], low, acc)
               : p \in {<<BigAdd(acc, BigExp2(bit)), bit - 1>>}})

\* the same for the bits bit..0, eight bits at a time
RECURSIVE BigDivFrom(_, _, _, _)
BigDivFrom(n, d, bit, acc) ==
    IF bit < 0 THEN acc
    ELSE Only({BigDivFrom(n, d, p[2], p[1])
               : p \in {<<BigDivBits(n, d, bit,
                                     IF bit < 8 THEN 0 ELSE bit - 7, acc),
                          bit - 8>>}})

\* n // d
BigDiv(n, d) ==
    Only({IF BigLess(p[1], p[2]) THEN <<>>
          ELSE BigDivFrom(p[1], p[2], BitLen(p[1]) - BitLen(p[2]), <<>>)
          : p \in {<<n, d>>}})

\* acc and the bits bit..low of the largest r with r * r <= n
RECURSIVE BigSqrtBits(_, _, _, _)
BigSqrtBits(n, bit, low, acc) ==
    IF bit < low THEN acc
    ELSE Only({IF BigLeq(BigMul(p[1], p[1]), n)
               THEN BigSqrtBits(n, p[2], low, p[1])
               ELSE BigSqrtBits(n, p[2], low, acc)
               : p \in {<<BigAdd(acc, BigExp2(bit)), bit - 1>>}})

RECURSIVE BigSqrtFrom(_, _, _)
BigSqrtFrom(n, bit, acc) ==
    IF bit < 0 THEN acc
    ELSE Only({BigSqrtFrom(n, p[2], p[1])
               : p \in {<<BigSqrtBits(n, bit,
                                      IF bit < 8 THEN 0 ELSE bit - 7, acc),
                          bit - 8>>}})

\* the integer square root
BigSqrt(n) == Only({BigSqrtFrom(x, BitLen(x) \div 2, <<>>)
                    : x \in {n}})

\* 0.0
FZero == [m |-> <<>>, e |-> 0]

\* q, the bits of big above the s cut, rounded up when the bits cut are more
\* than half, or half with the last bit kept set
FRoundUp(big, q, s) ==
    IF BitSet(big, s - 1) /\ (BitsBelow(big, s - 1) \/ BitSet(q, 0))
    THEN BigAdd(q, <<1>>)
    ELSE q

\* q * 2^e, q of Precision bits or, after a carry, of one more
FRoundCarry(q, e) ==
    IF BitLen(q) > Precision
    THEN [m |-> BigShr(q, 1), e |-> e + 1]
    ELSE [m |-> q, e |-> e]

\* big, of more than Precision bits, cut by s bits to Precision bits
FRoundCut(big, e, s) ==
    Only({FRoundCarry(q1, e + s)
          : q1 \in {FRoundUp(big, q, s) : q \in {BigShr(big, s)}}})

\* the double nearest to big * 2^e, ties to even
FRound(big, e) ==
    Only({IF p[3] = 0 THEN FZero
          ELSE IF p[3] <= Precision
               THEN [m |-> BigShl(p[1], Precision - p[3]),
                     e |-> p[2] - (Precision - p[3])]
               ELSE FRoundCut(p[1], p[2], p[3] - Precision)
          : p \in {<<b, e, BitLen(b)>> : b \in {big}}})

\* float(n) for an integer n >= 0
FOfInt(n) == FRound(BigOf(n), 0)

\* x < y
FLess(x, y) ==
    Only({IF p[2].m = <<>> THEN FALSE
          ELSE IF p[1].m = <<>> THEN TRUE
          ELSE IF p[1].e # p[2].e THEN p[1].e < p[2].e
          ELSE BigLess(p[1].m, p[2].m)
          : p \in {<<x, y>>}})

\* x + y with the mantissas brought to the exponent e
FAddAt(x, y, e) ==
    FRound(BigAdd(BigShl(x.m, x.e - e), BigShl(y.m, y.e - e)), e)

\* x + y
FAdd(x, y) ==
    Only({IF p[1].m = <<>> THEN p[2]
          ELSE IF p[2].m = <<>> THEN p[1]
          ELSE FAddAt(p[1], p[2], IF p[1].e < p[2].e THEN p[1].e ELSE p[2].e)
          : p \in {<<x, y>>}})

\* x * y
FMul(x, y) ==
    Only({IF p[1].m = <<>> \/ p[2].m = <<>> THEN FZero
          ELSE FRound(BigMul(p[1].m, p[2].m), p[1].e + p[2].e)
          : p \in {<<x, y>>}})

\* the quotient q of num by d with one more bit, set when the division
\* leaves a remainder
FDivRound(num, d, q, e) ==
    FRound(BigAdd(BigAdd(q, q), IF BigMul(q, d) = num THEN <<>> ELSE <<1>>), e)

\* x / y for y # 0.0: the quotient of the mantissas to Precision + 3 bits,
\* the lowest set when the division leaves a remainder
FDiv(x, y) ==
    Only({IF p[1].m = <<>> THEN FZero
          ELSE Only({FDivRound(t[1], p[2].m, t[2],
                               p[1].e - p[2].e - Precision - 3)
                     : t \in {<<num, BigDiv(num, p[2].m)>>
                              : num \in {BigShl(p[1].m, Precision + 2)}}})
          : p \in {<<x, y>>}})

\* the root r of big with one more bit, set when the root is not exact
FSqrtRound(big, r, e) ==
    FRound(BigAdd(BigAdd(r, r), IF BigMul(r, r) = big THEN <<>> ELSE <<1>>), e)

\* the root of m * 2^e from the root of m * 2^k, e - k even
FSqrtAt(m, e, k) ==
    Only({FSqrtRound(t[1], t[2], ((e - k) \div 2) - 1)
          : t \in {<<big, BigSqrt(big)>> : big \in {BigShl(m, k)}}})

\* math.sqrt(x): the root of the mantissa at an even exponent to more than
\* Precision + 2 bits, the lowest set when the root is not exact
FSqrt(x) ==
    Only({IF p.m = <<>> THEN FZero
          ELSE FSqrtAt(p.m, p.e, IF (p.e - Precision) % 2 = 0
                                 THEN Precision + 4 ELSE Precision + 5)
          : p \in {x}})

\* the literals 0.3 and 0.4: the doubles nearest to 3/10 and 4/10
FThreeTenths == FDiv(FOfInt(3), FOfInt(10))
FFourTenths == FDiv(FOfInt(4), FOfInt(10))

-----------------------------------------------------------------------------
(* search in the arithmetic of the program, on the searches in which no
   query token resembles any item token: every fuzz.ratio is 0.0 there, so
   the keyword and the category score are 0.0 exactly *)

\* the sum the loop of _cosine_similarity builds: dot += x * y (lines 72-78)
RECURSIVE FSumProducts(_, _, _)
FSumProducts(a, b, n) ==
    IF n = 0 THEN FZero
    ELSE FAdd(FSumProducts(a, b, n - 1), FMul(FOfInt(a[n]), FOfInt(b[n])))

\* _cosine_similarity on doubles
_cosine_similarity_double(a, b) ==
    IF a = <<>> \/ b = <<>> \/ Len(a) # Len(b) THEN FZero
    ELSE Only({IF s.na = FZero \/ s.nb = FZero THEN FZero
               ELSE FDiv(s.dot, FMul(FSqrt(s.na), FSqrt(s.nb)))
               : s \in {[dot |-> FSumProducts(a, b, Len(a)),
                         na  |-> FSumProducts(a, a, Len(a)),
                         nb  |-> FSumProducts(b, b, Len(b))]}})

\* the vectors of the provider: whole-numbered components that are not
\* negative
FloatVectors == {<<>>, <<1, 1, 1>>, <<1, 2, 2>>, <<0, 0, 1>>}

FloatResponses(n) == UNION {SeqsOfLen(FloatVectors, m) : m \in 0..n}

\* the function with domain S that maps b to _cosine_similarity(a, b)
RECURSIVE FloatCosineRow(_, _)
FloatCosineRow(a, S) ==
    IF S = {} THEN <<>>
    ELSE LET b == CHOOSE y \in S : TRUE
         IN  (b :> _cosine_similarity_double(a, b)) @@ FloatCosineRow(a, S \ {b})

\* the function with domain Q that maps a to FloatCosineRow(a, S)
RECURSIVE FloatCosineTable(_, _)
FloatCosineTable(Q, S) ==
    IF Q = {} THEN <<>>
    ELSE LET a == CHOOSE y \in Q : TRUE
         IN  (a :> FloatCosineRow(a, S)) @@ FloatCosineTable(Q \ {a}, S)

\* _cosine_similarity tabulated once over the vectors of the provider
FloatCosines == FloatCosineTable(FloatVectors, FloatVectors)

FloatCosine(a, b) ==
    IF a \in FloatVectors /\ b \in FloatVectors
    THEN FloatCosines[a][b]
    ELSE _cosine_similarity_double(a, b)

\* a token score as a double: 0.0 when no token resembles any other
FloatTokenScore(r) ==
    IF r = Zero THEN FZero ELSE FDiv(FOfInt(r.n), FOfInt(r.d))

\* 0.3 * semantic_score + 0.4 * keyword_score + 0.3 * category_score
FloatCombinedScore(semantic_score, keyword_score, category_score) ==
    FAdd(FAdd(FMul(FThreeTenths, semantic_score),
              FMul(FFourTenths, keyword_score)),
         FMul(FThreeTenths, category_score))

\* the loop body of search (lines 164-191)
FloatScoreItem(item, query_vec, item_vec, q_tokens, item_tokens, category_tokens) ==
    LET semantic_score == FloatCosine(query_vec, item_vec)
        keyword_score ==
            FloatTokenScore(RMax(ExactScore(q_tokens, item_tokens),
                                 _fuzzy_token_score(q_tokens, item_tokens)))
        category_score ==
            FloatTokenScore(RMax(ExactScore(q_tokens, category_tokens),
                                 _fuzzy_token_score(q_tokens, category_tokens)))
    IN  [item            |-> item,
         semantic_score  |-> semantic_score,
         keyword_score   |-> keyword_score,
         category_score  |-> category_score,
         combined_score  |->
             FloatCombinedScore(semantic_score, keyword_score, category_score)]

FloatLoopScores(its, query_vec, item_vecs, q_tokens, tokens_list, cat_tokens_list) ==
    [i \in 1..Min(Len(its), Len(item_vecs)) |->
        FloatScoreItem(its[i], query_vec, item_vecs[i], q_tokens,
                       tokens_list[i], cat_tokens_list[i])]

\* if combined_score > 0.3: results.append({...})
RECURSIVE FloatKept(_)
FloatKept(scs) ==
    IF scs = <<>> THEN <<>>
    ELSE IF FLess(FThreeTenths, Head(scs).combined_score)
         THEN <<ResultOf(Head(scs))>> \o FloatKept(Tail(scs))
         ELSE FloatKept(Tail(scs))

RECURSIVE FloatInsertDesc(_, _)
FloatInsertDesc(rs, r) ==
    IF rs = <<>> THEN <<r>>
    ELSE IF FLess(Head(rs).combined_score, r.combined_score)
         THEN <<r>> \o rs
         ELSE <<Head(rs)>> \o FloatInsertDesc(Tail(rs), r)

RECURSIVE FloatSortPrefix(_, _)
FloatSortPrefix(rs, n) ==
    IF n = 0 THEN <<>>
    ELSE FloatInsertDesc(FloatSortPrefix(rs, n - 1), rs[n])

\* results.sort(key=lambda r: r["combined_score"], reverse=True)
FloatSortDesc(rs) == FloatSortPrefix(rs, Len(rs))

\* the tables and the queries: no query token resembles an item token
FloatCatalogs == {<<Pool[2]>>, <<Pool[1], Pool[2]>>}

FloatQueries == {Some(<<"T", "V">>), Some(<<"?">>)}

InitFloat ==
    /\ inventory \in FloatCatalogs
    /\ Idle
    /\ threads = <<>>
    /\ lists = <<>>
    /\ fn = "none"
    /\ arg = <<>>
    /\ out = <<>>
    /\ db = <<>>
    /\ reqs = <<>>
    /\ hist = <<>>

\* the embedding request returns vecs (lines 156-208)
embeddings_create_returns_double(vecs) ==
    /\ pc = "embedding"
    /\ vectors' = vecs
    /\ UNCHANGED <<inventory, query, top_k, items, query_tokens,
                   item_tokens_list, category_tokens_list, calls, otherVars>>
    /\ IF vecs = <<>>
       THEN /\ pc' = "raised"
            /\ error' = Some("IndexError")
            /\ UNCHANGED <<scores, ranked, results>>
       ELSE LET query_vec == vecs[1]
                item_vecs == Tail(vecs)
                scs == FloatLoopScores(items, query_vec, item_vecs,
                                       query_tokens, item_tokens_list,
                                       category_tokens_list)
                sorted == FloatSortDesc(FloatKept(scs))
            IN  /\ pc' = "returned"
                /\ scores' = scs
                /\ ranked' = sorted
                /\ results' = Some(Truncate(sorted, top_k))
                /\ UNCHANGED error

NextFloat ==
    \/ \E q \in FloatQueries : search(q, None)
    \/ /\ pc = "embedding"
       /\ \E vecs \in FloatResponses(Len(items) + 1) :
              embeddings_create_returns_double(vecs)
    \/ embeddings_create_raises
    \/ search_exit

SpecFloat == InitFloat /\ [][NextFloat]_vars

-----------------------------------------------------------------------------
(* The cart of src/main.py: add_to_cart, remove_from_cart and
   paypal_capture_order over the tables inventory and cart_items.  Every
   request runs in its own thread with its own connection, and every
   statement is committed on its own (DBInterface._execute), so the requests
   interleave between statements *)

\* the rows of inventory and the browser sessions; the cart_id of a session
\* is the session's name
CartItemIds == {"i1", "i2"}
Sessions == {"s1", "s2"}

\* the status add_product and edit_product store (src/main.py:840, 919)
ListedStatuses == {"available", "unlisted"}

InitCart ==
    /\ inventory = <<>>
    /\ Idle
    /\ threads = <<>>
    /\ lists = <<>>
    /\ fn = "none"
    /\ arg = <<>>
    /\ out = <<>>
    /\ db \in [status     : [CartItemIds -> ListedStatuses],
               cart_items : {{}},
               cart_id    : {[s \in Sessions |-> FALSE]}]
    /\ reqs = [r \in Requests |-> NoRequest]
    /\ hist = [restored |-> {}]

\* SELECT quantity FROM cart_items WHERE cart_id = ? AND item_id = ?
is_item_in_cart(cart_items, cart_id, item_id) ==
    [cart_id |-> cart_id, item_id |-> item_id] \in cart_items

\* INSERT OR REPLACE INTO cart_items (cart_id, item_id, quantity)
add_item_to_cart(cart_items, cart_id, item_id) ==
    cart_items \cup {[cart_id |-> cart_id, item_id |-> item_id]}

\* DELETE FROM cart_items WHERE cart_id = ? AND item_id = ?
remove_item_from_cart(cart_items, cart_id, item_id) ==
    cart_items \ {[cart_id |-> cart_id, item_id |-> item_id]}

\* DELETE FROM cart_items WHERE cart_id = ?
clear_cart(cart_items, cart_id) ==
    {row \in cart_items : row.cart_id # cart_id}

\* SELECT cart_id FROM cart_items WHERE item_id = ? LIMIT 1
item_is_in_any_cart(cart_items, item_id) ==
    \E row \in cart_items : row.item_id = item_id

\* UPDATE inventory SET status = ? WHERE id = ?, for every id of item_ids
mark_items(status, item_ids, value) ==
    [i \in DOMAIN status |-> IF i \in item_ids THEN value ELSE status[i]]

\* the redirect is sent: the request is over
Finish(r) == reqs' = [reqs EXCEPT ![r] = NoRequest]

\* add_to_cart(item_id) up to the check of the status (lines 1622-1637)
add_to_cart_get_item(r, s, guest, item_id) ==
    /\ reqs[r].pc = "idle"
    /\ ~guest
    /\ db.status[item_id] = "available"
    /\ reqs' = [reqs EXCEPT ![r] =
                   [pc |-> "have_item", session |-> s, item_id |-> item_id]]
    /\ UNCHANGED <<searchVars, threads, lists, fn, arg, out, db, hist>>

\* get_or_create_cart_id and is_item_in_cart (lines 1639-1641)
add_to_cart_is_item_in_cart(r) ==
    LET f == reqs[r]
    IN  /\ f.pc = "have_item"
        /\ db' = [db EXCEPT !.cart_id[f.session] = TRUE]
        /\ IF is_item_in_cart(db.cart_items, f.session, f.item_id)
           THEN Finish(r)
           ELSE reqs' = [reqs EXCEPT ![r].pc = "add_item"]
        /\ UNCHANGED <<searchVars, threads, lists, fn, arg, out, hist>>

\* db.add_item_to_cart (line 1643)
add_to_cart_add_item(r) ==
    LET f == reqs[r]
    IN  /\ f.pc = "add_item"
        /\ db' = [db EXCEPT !.cart_items =
                     add_item_to_cart(@, f.session, f.item_id)]
        /\ reqs' = [reqs EXCEPT ![r].pc = "mark_pending"]
        /\ UNCHANGED <<searchVars, threads, lists, fn, arg, out, hist>>

\* db.mark_items_pending and the redirect (lines 1645-1646)
add_to_cart_mark_pending(r) ==
    LET f == reqs[r]
    IN  /\ f.pc = "mark_pending"
        /\ db' = [db EXCEPT !.status = mark_items(@, {f.item_id}, "pending")]
        /\ Finish(r)
        /\ UNCHANGED <<searchVars, threads, lists, fn, arg, out, hist>>

\* remove_from_cart(item_id) of a session that has a cart_id, up to
\* db.remove_item_from_cart (lines 1651-1654); the frame remembers whether
\* the item was in the caller's cart
remove_from_cart_remove_item(r, s, item_id) ==
    /\ reqs[r].pc = "idle"
    /\ db.cart_id[s]
    /\ db' = [db EXCEPT !.cart_items = remove_item_from_cart(@, s, item_id)]
    /\ reqs' = [reqs EXCEPT ![r] =
                   [pc |-> "removed", session |-> s, item_id |-> item_id,
                    was_in_cart |-> is_item_in_cart(db.cart_items, s, item_id)]]
    /\ UNCHANGED <<searchVars, threads, lists, fn, arg, out, hist>>

\* if not db.item_is_in_any_cart(item_id) (line 1656)
remove_from_cart_item_is_in_any_cart(r) ==
    LET f == reqs[r]
    IN  /\ f.pc = "removed"
        /\ IF item_is_in_any_cart(db.cart_items, f.item_id)
           THEN Finish(r)
           ELSE reqs' = [reqs EXCEPT ![r].pc = "mark_available"]
        /\ UNCHANGED <<searchVars, threads, lists, fn, arg, out, db, hist>>

\* db.mark_items_available and the redirect (lines 1657-1658); hist.restored
\* collects the items that were not in the caller's cart and whose status
\* the request changes
remove_from_cart_mark_available(r) ==
    LET f == reqs[r]
    IN  /\ f.pc = "mark_available"
        /\ db' = [db EXCEPT !.status = mark_items(@, {f.item_id}, "available")]
        /\ hist' = IF ~f.was_in_cart /\ db.status[f.item_id] # "available"
                   THEN [hist EXCEPT !.restored = @ \cup {f.item_id}]
                   ELSE hist
        /\ Finish(r)
        /\ UNCHANGED <<searchVars, threads, lists, fn, arg, out>>

\* paypal_capture_order of a completed order: the items of the session's
\* cart are sold, the cart is cleared and the cart_id dropped
\* (lines 1867-1905)
paypal_capture_order(s) ==
    /\ db.cart_id[s]
    /\ LET item_ids == {row.item_id :
                            row \in {c \in db.cart_items : c.cart_id = s}}
       IN  db' = [db EXCEPT !.status = mark_items(@, item_ids, "sold"),
                            !.cart_items = clear_cart(@, s),
                            !.cart_id[s] = FALSE]
    /\ UNCHANGED <<searchVars, threads, lists, fn, arg, out, reqs, hist>>

NextCart ==
    \/ \E r \in Requests, s \in Sessions, guest \in BOOLEAN,
          item_id \in CartItemIds :
           add_to_cart_get_item(r, s, guest, item_id)
    \/ \E r \in Requests : add_to_cart_is_item_in_cart(r)
    \/ \E r \in Requests : add_to_cart_add_item(r)
    \/ \E r \in Requests : add_to_cart_mark_pending(r)
    \/ \E r \in Requests, s \in Sessions, item_id \in CartItemIds :
           remove_from_cart_remove_item(r, s, item_id)
    \/ \E r \in Requests : remove_from_cart_item_is_in_any_cart(r)
    \/ \E r \in Requests : remove_from_cart_mark_available(r)
    \/ \E s \in Sessions : paypal_capture_order(s)

SpecCart == InitCart /\ [][NextCart]_vars

-----------------------------------------------------------------------------
(* The claims *)

Returned == pc = "returned"

\* the number of embedding requests the current invocation has issued
EmbedCalls == Cardinality({i \in DOMAIN calls : calls[i].op = "embeddings.create"})

\* C1: every result search returns has combined_score strictly greater
\* than 0.3; an item that scores exactly 0.3 or less is not returned.
C1_ResultsAboveThreshold ==
    Returned =>
        \A i \in DOMAIN results.v :
            RLess(Rat(3, 10), results.v[i].combined_score)

\* a search has returned results while an item that scored exactly 0.3 was
\* left out
C1_Witness ==
    /\ Returned
    /\ results.v # <<>>
    /\ \E i \in DOMAIN scores : scores[i].combined_score = Rat(3, 10)

\* C2: the returned list is sorted non-increasing by combined_score: each
\* result scores at least as much as the one after it.
C2_ResultsSortedDescending ==
    Returned =>
        \A i \in 1..(Len(results.v) - 1) :
            RLeq(results.v[i + 1].combined_score, results.v[i].combined_score)

\* two results were returned in the reverse of the snapshot order
C2_Witness ==
    /\ Returned
    /\ Len(results.v) = 2
    /\ Len(items) = 2
    /\ results.v[1].item = items[2]
    /\ RLess(results.v[2].combined_score, results.v[1].combined_score)

\* C3: for every scored item, combined_score is 0.3 times the cosine
\* similarity of the query vector and the item's vector, plus 0.4 times the
\* keyword score against the tokens of the item's composite text, plus 0.3
\* times the category score against the tokens of its category alone.
C3_CombinedScoreFormula ==
    Returned =>
        \A i \in DOMAIN scores :
            LET qt == _normalize_tokens(Some(Strip(query.v)))
                it == _normalize_tokens(Some(_item_text(items[i])))
                ct == _normalize_tokens(Some(items[i].category))
                sem == _cosine_similarity(vectors[1], vectors[i + 1])
                kw == RMax(ExactScore(qt, it), _fuzzy_token_score(qt, it))
                cat == RMax(ExactScore(qt, ct), _fuzzy_token_score(qt, ct))
            IN  /\ scores[i].item = items[i]
                /\ scores[i].combined_score.n * 10 * sem.d * kw.d * cat.d
                     = scores[i].combined_score.d
                         * (3 * sem.n * kw.d * cat.d + 4 * kw.n * sem.d * cat.d
                            + 3 * cat.n * sem.d * kw.d)
                /\ \A j \in DOMAIN results.v :
                       results.v[j].item = items[i] =>
                           results.v[j].combined_score = scores[i].combined_score

\* an item was scored whose three components are non-zero and pairwise
\* different
C3_Witness ==
    /\ Returned
    /\ \E i \in DOMAIN scores :
           /\ scores[i].semantic_score # Zero
           /\ scores[i].category_score # Zero
           /\ scores[i].keyword_score # scores[i].category_score
           /\ scores[i].keyword_score # scores[i].semantic_score
           /\ scores[i].category_score # scores[i].semantic_score

\* C4, as claimed: combined_score is always in [0, 1].
C4_CombinedInUnitInterval ==
    \A i \in DOMAIN scores :
        /\ RLeq(Zero, scores[i].combined_score)
        /\ RLeq(scores[i].combined_score, One)

\* C4, amended: combined_score is always in [-0.3, 1]: the semantic score is
\* a cosine, which lies in [-1, 1], and the two token scores lie in [0, 1].
C4_CombinedBounds ==
    \A i \in DOMAIN scores :
        /\ RLeq(Rat(-3, 10), scores[i].combined_score)
        /\ RLeq(scores[i].combined_score, One)
        /\ RLeq(Rat(-1, 1), scores[i].semantic_score)
        /\ RLeq(scores[i].semantic_score, One)
        /\ RLeq(Zero, scores[i].keyword_score)
        /\ RLeq(scores[i].keyword_score, One)
        /\ RLeq(Zero, scores[i].category_score)
        /\ RLeq(scores[i].category_score, One)

\* an item scored the lower bound, -0.3: opposite vectors and no token in
\* common
C4_Witness ==
    \E i \in DOMAIN scores : scores[i].combined_score = Rat(-3, 10)

C6_BlankQueryNoCalls ==
    (pc # "idle" /\ Strip(OrEmpty(query)) = <<>>) =>
        /\ Returned
        /\ results = Some(<<>>)
        /\ calls = <<>>
        /\ error = None

\* search has returned for a whitespace-only query, a positive top_k and a
\* catalog that holds rows
C6_Witness ==
    /\ Returned
    /\ query = Some(<<" ", "\t">>)
    /\ top_k = Some(1)
    /\ inventory # <<>>

\* C7: for a non-blank query and an empty catalog, search returns the empty
\* list without an embedding request and without an error.
C7_EmptyCatalogNoEmbedding ==
    (pc # "idle" /\ Strip(OrEmpty(query)) # <<>> /\ inventory = <<>>) =>
        /\ Returned
        /\ results = Some(<<>>)
        /\ EmbedCalls = 0
        /\ error = None

\* search has returned for a non-blank query after reading an empty catalog
C7_Witness ==
    /\ Returned
    /\ Strip(OrEmpty(query)) # <<>>
    /\ inventory = <<>>
    /\ calls = <<GetAllData>>

\* C8: with a positive top_k search returns exactly the first top_k entries
\* of the full ranked list (all of it if it is shorter); with top_k None, 0
\* or negative it returns the full ranked list, which holds every scored item
\* above the threshold.
C8_TopK ==
    Returned =>
        /\ Len(ranked) =
               Cardinality({i \in DOMAIN scores :
                               RLess(Rat(3, 10), scores[i].combined_score)})
        /\ IF ~top_k.isNone /\ top_k.v > 0
           THEN /\ Len(results.v) = Min(top_k.v, Len(ranked))
                /\ \A i \in DOMAIN results.v : results.v[i] = ranked[i]
           ELSE results.v = ranked

\* top_k = 1 cut a ranked list of two entries down to its first
C8_Witness ==
    /\ Returned
    /\ top_k = Some(1)
    /\ Len(ranked) = 2
    /\ Len(results.v) = 1

\* C9: a search with a non-blank query over a non-empty catalog issues
\* exactly one embedding request, whose input is the query followed by the
\* item texts in snapshot order, whatever searches came before; vector 0 is
\* the query vector and vector i is scored against the i-th item.
C9_OneBatchedRequest ==
    (pc # "idle" /\ Strip(OrEmpty(query)) # <<>> /\ inventory # <<>>) =>
        /\ items = inventory
        /\ calls = <<GetAllData,
                     [op    |-> "embeddings.create",
                      input |-> <<Strip(query.v)>>
                                \o [i \in 1..Len(items) |-> _item_text(items[i])]]>>
        /\ Returned =>
               /\ Len(scores) = Min(Len(items), Len(vectors) - 1)
               /\ \A i \in DOMAIN scores :
                      /\ scores[i].item = items[i]
                      /\ scores[i].semantic_score =
                             _cosine_similarity(vectors[1], vectors[i + 1])

\* a search over two items has returned after a response of three vectors
\* that gave the two items different semantic scores
C9_Witness ==
    /\ Returned
    /\ Len(items) = 2
    /\ Len(vectors) = 3
    /\ Len(scores) = 2
    /\ scores[1].semantic_score # scores[2].semantic_score

\* C10: when the embedding request fails, search fails with that error: it
\* returns no list, has scored nothing, and has issued the request once.
C10_EmbeddingFailurePropagates ==
    /\ (pc = "raised") =>
           /\ results = None
           /\ error # None
           /\ scores = <<>>
           /\ ranked = <<>>
           /\ EmbedCalls = 1
    /\ (error # None) => pc = "raised"
    /\ (pc = "embedding") => EmbedCalls = 1

\* the embedding request of a search over a non-empty catalog has failed
C10_Witness ==
    /\ pc = "raised"
    /\ error = Some("EmbeddingProviderFailure")
    /\ Len(items) = 2

\* the dot product of two vectors of one length
RECURSIVE Dot(_, _)
Dot(a, b) == IF a = <<>> THEN 0 ELSE Head(a) * Head(b) + Dot(Tail(a), Tail(b))

\* the pair q, v is one _cosine_similarity scores 0.0: an empty vector, two
\* lengths, or an all-zero vector
Malformed(q, v) ==
    \/ q = <<>>
    \/ v = <<>>
    \/ Len(q) # Len(v)
    \/ \A i \in DOMAIN q : q[i] = 0
    \/ \A i \in DOMAIN v : v[i] = 0

\* C11: an item whose vector is empty, of another length than the query
\* vector, or all-zero gets semantic_score 0.0; the search still returns, and
\* every other item gets the cosine of its vector and the query vector.
C11_MalformedVectorScoresZero ==
    /\ (Returned /\ vectors # <<>>) =>
           /\ Len(scores) = Min(Len(items), Len(vectors) - 1)
           /\ \A i \in DOMAIN scores :
                  LET q == vectors[1]
                      v == vectors[i + 1]
                      sem == scores[i].semantic_score
                  IN  IF Malformed(q, v)
                      THEN sem = Zero
                      ELSE /\ sem.n * sem.n * Dot(q, q) * Dot(v, v)
                                = Dot(q, v) * Dot(q, v) * sem.d * sem.d
                           /\ (sem.n > 0) = (Dot(q, v) > 0)
                           /\ (sem.n < 0) = (Dot(q, v) < 0)
    /\ (pc = "raised") => vectors = <<>>

\* a search over two items has returned a result although the vector of the
\* first item has another length than the query vector; the second item has
\* its cosine, 3/5
C11_Witness ==
    /\ Returned
    /\ Len(items) = 2
    /\ vectors = <<<<3, 4>>, <<1>>, <<1, 0>>>>
    /\ scores[1].semantic_score = Zero
    /\ scores[2].semantic_score = Rat(3, 5)
    /\ results.v # <<>>

\* m is the maximum of a and b
IsMaxOf(m, a, b) == (m = a \/ m = b) /\ RLeq(a, m) /\ RLeq(b, m)

\* C17: keyword_score is the maximum of the exact and the fuzzy score of the
\* query tokens against the tokens of the item's composite text;
\* category_score is the maximum of the exact and the fuzzy score of the same
\* query tokens against the tokens of the item's category alone; the
\* keyword_score of a result is that maximum.
C17_TokenScoresAreMaxima ==
    Returned =>
        \A i \in DOMAIN scores :
            LET qt == _normalize_tokens(Some(Strip(query.v)))
                it == _normalize_tokens(Some(_item_text(items[i])))
                ct == _normalize_tokens(Some(items[i].category))
            IN  /\ IsMaxOf(scores[i].keyword_score,
                           ExactScore(qt, it), _fuzzy_token_score(qt, it))
                /\ IsMaxOf(scores[i].category_score,
                           ExactScore(qt, ct), _fuzzy_token_score(qt, ct))
                /\ \A j \in DOMAIN results.v :
                       results.v[j].item = items[i] =>
                           results.v[j].keyword_score = scores[i].keyword_score

\* a returned result whose keyword and category scores are both its fuzzy
\* scores, above the exact ones
C17_Witness ==
    /\ Returned
    /\ \E i \in DOMAIN scores :
           /\ RLess(ExactScore(query_tokens, item_tokens_list[i]),
                    scores[i].keyword_score)
           /\ RLess(ExactScore(query_tokens, category_tokens_list[i]),
                    scores[i].category_score)
           /\ \E j \in DOMAIN results.v : results.v[j].item = items[i]

\* the two vectors of a response are usable and their cosine is c
CosineIs(c) ==
    /\ Len(vectors) = 2
    /\ ~Malformed(vectors[1], vectors[2])
    /\ _cosine_similarity(vectors[1], vectors[2]) = c

\* C13: with the row (Oak Chair, "solid oak dining chair", Living Room) and
\* the query "chair", when the embedding cosine is 1 the exact keyword score
\* is 1, the exact category score is 0, the combined score is at least 0.7,
\* and the row is returned
C13_ChairScenario ==
    (Returned /\ query = Some(<<"c", "h", "a", "i", "r">>) /\ CosineIs(One)) =>
        /\ items = <<OakChairItem>>
        /\ ExactScore(query_tokens, item_tokens_list[1]) = One
        /\ ExactScore(query_tokens, category_tokens_list[1]) = Zero
        /\ scores[1].semantic_score = One
        /\ scores[1].keyword_score = One
        /\ RLeq(Rat(7, 10), scores[1].combined_score)
        /\ Len(results.v) = 1
        /\ results.v[1].item = OakChairItem
        /\ results.v[1].combined_score = scores[1].combined_score

C13_Witness ==
    /\ Returned
    /\ query = Some(<<"c", "h", "a", "i", "r">>)
    /\ vectors = <<<<3, 4>>, <<3, 4>>>>
    /\ top_k = None
    /\ Len(results.v) = 1
    /\ results.v[1].item = OakChairItem

\* C14: with the same row and the query "zzqqxx", when the embeddings are
\* orthogonal the keyword, category and combined scores are 0 and the result
\* is the empty list
C14_NoMatchScenario ==
    (Returned /\ query = Some(<<"z", "z", "q", "q", "x", "x">>)
              /\ CosineIs(Zero)) =>
        /\ items = <<OakChairItem>>
        /\ scores[1].semantic_score = Zero
        /\ scores[1].keyword_score = Zero
        /\ scores[1].category_score = Zero
        /\ scores[1].combined_score = Zero
        /\ results = Some(<<>>)

C14_Witness ==
    /\ Returned
    /\ query = Some(<<"z", "z", "q", "q", "x", "x">>)
    /\ vectors = <<<<1, 0>>, <<0, 1>>>>
    /\ scores[1].combined_score = Zero
    /\ results = Some(<<>>)

\* the function name has been called
Called(name) == name \in DOMAIN out

\* the greatest of the ratios of q against the tokens of I
MaxRatioOf(q, I) ==
    CHOOSE r \in {Ratio(q, t) : t \in I} : \A t \in I : RLeq(Ratio(q, t), r)

RECURSIVE SumOfMaxima(_, _)
SumOfMaxima(Q, I) ==
    IF Q = {} THEN Zero
    ELSE LET q == CHOOSE x \in Q : TRUE
         IN  RAdd(MaxRatioOf(q, I), SumOfMaxima(Q \ {q}, I))

\* C15: _fuzzy_token_score(query_tokens, item_tokens) is the sum over the
\* query tokens of the greatest ratio against an item token, divided by
\* 100 * |query_tokens|; it is 0 when either set is empty, and it is in [0, 1]
C15_FuzzyTokenScore ==
    Called("_fuzzy_token_score") =>
        LET Q == arg.query_tokens
            I == arg.item_tokens
            v == out["_fuzzy_token_score"]
        IN  /\ (Q = {} \/ I = {}) => v = Zero
            /\ (Q # {} /\ I # {}) =>
                   v = RMul(SumOfMaxima(Q, I), Rat(1, 100 * Cardinality(Q)))
            /\ RLeq(Zero, v)
            /\ RLeq(v, One)

C15_Witness ==
    /\ Called("_fuzzy_token_score")
    /\ Cardinality(arg.query_tokens) = 2
    /\ Cardinality(arg.item_tokens) = 2
    /\ \A q \in arg.query_tokens :
           \E t1, t2 \in arg.item_tokens : RLess(Ratio(q, t1), Ratio(q, t2))
    /\ RLess(Zero, out["_fuzzy_token_score"])
    /\ RLess(out["_fuzzy_token_score"], One)

\* C16: the exact keyword score is |query_tokens & item_tokens| /
\* |query_tokens|, 0 when query_tokens is empty; when the query has tokens
\* and every one of them is an item token, it is 1
C16_ExactKeywordScore ==
    Called("exact_keyword_score") =>
        LET Q == arg.query_tokens
            I == arg.item_tokens
            v == out["exact_keyword_score"]
        IN  /\ Q = {} => v = Zero
            /\ Q # {} =>
                   /\ v.d > 0
                   /\ v.n * Cardinality(Q) = v.d * Cardinality(Q \cap I)
            /\ (Q # {} /\ Q \subseteq I) => v = One

C16_Witness ==
    /\ Called("exact_keyword_score")
    /\ Cardinality(arg.query_tokens) = 1
    /\ Cardinality(arg.item_tokens) = 2
    /\ arg.query_tokens \subseteq arg.item_tokens
    /\ out["exact_keyword_score"] = One

\* the maximal runs of word characters of t, as pairs of positions
MaximalRuns(t) ==
    {r \in (DOMAIN t) \X (DOMAIN t) :
        /\ r[1] <= r[2]
        /\ \A k \in r[1]..r[2] : t[k] \in WordChars
        /\ r[1] = 1 \/ t[r[1] - 1] \notin WordChars
        /\ r[2] = Len(t) \/ t[r[2] + 1] \notin WordChars}

\* C18: _normalize_tokens returns the set of the lower-cased maximal runs of
\* word characters of its input; every token is non-empty and has no
\* upper-case letter, equal tokens are one element, and None and the empty
\* string give the empty set
C18_NormalizeTokens ==
    Called("_normalize_tokens") =>
        LET t == OrEmpty(arg.text)
            v == out["_normalize_tokens"]
        IN  /\ v = {Lower(SubSeq(t, r[1], r[2])) : r \in MaximalRuns(t)}
            /\ \A tok \in v :
                   /\ tok # <<>>
                   /\ \A k \in DOMAIN tok :
                          tok[k] \in WordChars \ Range(UpperCase)
            /\ Cardinality(v) <= Cardinality(MaximalRuns(t))
            /\ t = <<>> => v = {}

C18_Witness ==
    /\ Called("_normalize_tokens")
    /\ ~arg.text.isNone
    /\ arg.text.v = TextMixed
    /\ Cardinality(MaximalRuns(TextMixed)) = 3
    /\ out["_normalize_tokens"] = {<<"b", "1">>, <<"_", "b", "1">>}

\* C19: normalize_word lower-cases the word; a lower-cased word of more than
\* 3 characters that ends in "es" loses those two characters, one that ends
\* in "s" but not in "es" loses that one character, and every other word,
\* every word of 3 characters or fewer included, is only lower-cased
C19_NormalizeWord ==
    Called("normalize_word") =>
        LET l == Lower(arg.word)
            n == Len(arg.word)
            v == out["normalize_word"]
            es == n >= 2 /\ l[n - 1] = "e" /\ l[n] = "s"
            s1 == n >= 1 /\ l[n] = "s"
        IN  /\ n <= 3 => v = l
            /\ (n > 3 /\ es) => v \o <<"e", "s">> = l
            /\ (n > 3 /\ ~es /\ s1) => v \o <<"s">> = l
            /\ (n > 3 /\ ~s1) => v = l

C19_Witness ==
    /\ Called("normalize_word")
    /\ arg.word = TextBOXES
    /\ out["normalize_word"] = <<"b", "o", "x">>

\* no word of t of more than 3 characters ends in "s" or "S"
NoPluralWord(t) ==
    \A r \in MaximalRuns(t) :
        ~(r[2] - r[1] + 1 > 3 /\ LowerChar(t[r[2]]) = "s")

\* C20: text_to_normalized_tokens applies normalize_word to every word and
\* _normalize_tokens only lower-cases; on one text they return the same set
\* exactly when no word of more than 3 characters ends in "s" (in either
\* case), they differ on "chairs", and the token sets of search are those
\* of _normalize_tokens
C20_TokenizersDiffer ==
    /\ Called("text_to_normalized_tokens") =>
           LET t == OrEmpty(arg.text)
           IN  out["text_to_normalized_tokens"] =
                   {normalize_word(SubSeq(t, r[1], r[2])) :
                       r \in MaximalRuns(t)}
    /\ (Called("text_to_normalized_tokens") /\ Called("_normalize_tokens")) =>
           /\ (out["text_to_normalized_tokens"] = out["_normalize_tokens"])
                  <=> NoPluralWord(OrEmpty(arg.text))
           /\ OrEmpty(arg.text) = TextChairs =>
                  /\ out["text_to_normalized_tokens"]
                         = {<<"c", "h", "a", "i", "r">>}
                  /\ out["_normalize_tokens"] = {TextChairs}
    /\ (pc \in {"embedding", "returned", "raised"} /\ item_tokens_list # <<>>) =>
           /\ query_tokens = _normalize_tokens(query)
           /\ Len(item_tokens_list) = Len(items)
           /\ Len(category_tokens_list) = Len(items)
           /\ \A i \in DOMAIN items :
                  /\ item_tokens_list[i]
                         = _normalize_tokens(Some(_item_text(items[i])))
                  /\ category_tokens_list[i]
                         = _normalize_tokens(Some(items[i].category))

C20_Witness ==
    /\ Called("text_to_normalized_tokens")
    /\ Called("_normalize_tokens")
    /\ OrEmpty(arg.text) = TextChairs
    /\ out["text_to_normalized_tokens"] # out["_normalize_tokens"]

\* what search(q, k) returns over the table inv when it runs alone and the
\* provider answers vecs
SearchAlone(inv, q, k, vecs) ==
    IF BlankQuery(q) \/ EmptyCatalog(inv)
    THEN <<>>
    ELSE Truncate(
             SortDesc(Kept(LoopScores(
                 inv, vecs[1], Tail(vecs),
                 _normalize_tokens(Some(StrippedQuery(q))),
                 ItemTokensList(inv), CategoryTokensList(inv)))),
             k)

\* C12: however the steps of concurrent searches are interleaved, the table
\* stays as it was, every search that reads it sees all of it, and every
\* search that returns returns what it returns when it runs alone
C12_ConcurrentSearchesIndependent ==
    /\ inventory = ConcCatalog
    /\ \A t \in Threads :
           LET f == threads[t]
           IN  /\ f.pc \in {"embedding", "loop"} => f.items = ConcCatalog
               /\ f.pc = "returned" =>
                      /\ ~f.result.isNone
                      /\ f.result.v =
                             SearchAlone(ConcCatalog, f.query, f.top_k,
                                         f.vectors)

C12_Witness ==
    /\ inventory = ConcCatalog
    /\ threads[1].pc = "returned"
    /\ threads[2].pc = "returned"
    /\ Len(threads[1].result.v) = 2
    /\ Len(threads[2].result.v) = 2
    /\ threads[1].result.v[1].item = ConcCatalog[1]
    /\ threads[2].result.v[1].item = ConcCatalog[2]

\* C21: tokens_fuzzy_match is true exactly when some query token and some
\* item token have a ratio >= threshold (80 when no threshold is passed); a
\* ratio equal to the threshold matches, and an empty set gives false
C21_TokensFuzzyMatch ==
    Called("tokens_fuzzy_match") =>
        LET Q == arg.q_tokens
            I == arg.item_tokens
            th == IF arg.threshold.isNone THEN 80 ELSE arg.threshold.v
            v == out["tokens_fuzzy_match"]
        IN  /\ v \in BOOLEAN
            /\ v <=> \E q \in Q, t \in I :
                         LET r == fuzz_ratio(q, t) IN r.n >= th * r.d
            /\ (Q = {} \/ I = {}) => ~v

C21_Witness ==
    /\ Called("tokens_fuzzy_match")
    /\ arg.threshold.isNone
    /\ arg.q_tokens = {<<"c", "h", "a", "i", "r">>}
    /\ arg.item_tokens = {<<"c", "h", "a", "i", "n">>, <<"b", "e", "d">>}
    /\ fuzz_ratio(<<"c", "h", "a", "i", "r">>, <<"c", "h", "a", "i", "n">>)
           = Rat(80, 1)
    /\ out["tokens_fuzzy_match"] = TRUE

\* the four parts of a raw row in the order id, name, description,
\* category, a missing or None column being empty
PartsOf(row) ==
    [i \in 1..4 |->
        LET name == <<"id", "name", "description", "category">>[i]
        IN  IF name \notin DOMAIN row THEN <<>>
            ELSE IF row[name].isNone THEN <<>> ELSE row[name].v]

\* the room part i takes in the composite text, its separator included
RoomOf(parts, i) == IF parts[i] = <<>> THEN 0 ELSE Len(parts[i]) + 1

\* where part i starts in the composite text, less one
OffsetOf(parts, i) ==
    IF i = 1 THEN 0
    ELSE IF i = 2 THEN RoomOf(parts, 1)
    ELSE IF i = 3 THEN RoomOf(parts, 1) + RoomOf(parts, 2)
    ELSE RoomOf(parts, 1) + RoomOf(parts, 2) + RoomOf(parts, 3)

ClientFromFile(files, path) ==
    IF path.isNone THEN [api_key |-> None]
    ELSE IF path.v \notin DOMAIN files THEN [api_key |-> None]
    ELSE IF files[path.v].isNone THEN [api_key |-> None]
    ELSE IF Strip(files[path.v].v) = <<>> THEN [api_key |-> None]
    ELSE [api_key |-> Some(Strip(files[path.v].v))]

\* C23 as stated: a non-empty OPENAI_API_KEY is used; otherwise the key file
\* is the one named by OPENAI_API_KEY_PATH, or by openai.api_key_path if
\* OPENAI_API_KEY_PATH is unset, and the key is read from it if it exists
\* and is not blank; otherwise the default configuration is used
C23_KeySelectionUnset ==
    Called("_build_client") =>
        LET e == arg.environ
            k == e["OPENAI_API_KEY"]
            p == e["OPENAI_API_KEY_PATH"]
            q == e["openai.api_key_path"]
            v == out["_build_client"]
        IN  IF ~k.isNone /\ k.v # <<>>
            THEN v = [api_key |-> Some(Strip(k.v))]
            ELSE v = ClientFromFile(arg.files, IF p.isNone THEN q ELSE p)

\* C23: a non-empty OPENAI_API_KEY is used (trimmed); otherwise the key file
\* is the one named by OPENAI_API_KEY_PATH, or by openai.api_key_path if
\* OPENAI_API_KEY_PATH is unset or empty, and the key is read from it if it
\* exists and is not blank; otherwise the default configuration is used
C23_KeySelection ==
    Called("_build_client") =>
        LET e == arg.environ
            k == e["OPENAI_API_KEY"]
            p == e["OPENAI_API_KEY_PATH"]
            q == e["openai.api_key_path"]
            v == out["_build_client"]
        IN  IF ~k.isNone /\ k.v # <<>>
            THEN v = [api_key |-> Some(Strip(k.v))]
            ELSE v = ClientFromFile(arg.files,
                                    IF p.isNone \/ p.v = <<>> THEN q ELSE p)

C23_Witness ==
    /\ Called("_build_client")
    /\ arg.environ["OPENAI_API_KEY"].isNone
    /\ ~arg.environ["OPENAI_API_KEY_PATH"].isNone
    /\ arg.environ["OPENAI_API_KEY_PATH"].v = <<>>
    /\ ~arg.environ["openai.api_key_path"].isNone
    /\ arg.environ["openai.api_key_path"].v = PathQ
    /\ ~arg.files[PathQ].isNone
    /\ out["_build_client"] = [api_key |-> Some(<<"g">>)]

\* the token is in password_reset_tokens
Stored(token) == \E row \in db.password_reset_tokens : row.token = token

\* C24: a reset token is one-time: when reset_password has answered that
\* the password was changed or that the token has expired, the token is
\* deleted; a request that starts once its token was deleted is answered
\* with the invalid-link error; and no token changes a password more than
\* once
C24_TokenOneTime ==
    /\ \A r \in Requests :
           (reqs[r].pc = "done" /\ reqs[r].response \in {"redirect", "expired"})
               => ~Stored(reqs[r].token)
    /\ hist.late \subseteq {"invalid"}
    /\ \A token \in ResetTokens : hist.changes[token] <= 1

\* C25: for every scored item the tokens of the category are among the
\* tokens of the composite text, so the exact and the fuzzy category score
\* do not exceed the exact and the fuzzy keyword score, and category_score
\* <= keyword_score
C25_CategoryAtMostKeyword ==
    Returned =>
        \A i \in DOMAIN scores :
            LET it == item_tokens_list[i]
                ct == category_tokens_list[i]
            IN  /\ ct \subseteq it
                /\ RLeq(ExactScore(query_tokens, ct),
                        ExactScore(query_tokens, it))
                /\ RLeq(_fuzzy_token_score(query_tokens, ct),
                        _fuzzy_token_score(query_tokens, it))
                /\ RLeq(scores[i].category_score, scores[i].keyword_score)

C25_Witness ==
    /\ Returned
    /\ \E i \in DOMAIN scores :
           /\ category_tokens_list[i] # {}
           /\ RLess(Zero, scores[i].category_score)
           /\ RLess(scores[i].category_score, scores[i].keyword_score)
           /\ \E j \in DOMAIN results.v : results.v[j].item = items[i]

\* the position of a returned item in the snapshot
IndexOf(item) == CHOOSE i \in DOMAIN items : items[i] = item

\* the positions in the returned list that hold the item
PlacesOf(item) == {j \in DOMAIN results.v : results.v[j].item = item}

\* C26: semantic similarity alone never admits an item: when an item's
\* keyword_score is 0, its category_score is 0, its combined_score is
\* 0.3 * semantic_score and at most 0.3, and it is not returned, whatever
\* vectors the provider returned
C26_SemanticAloneNeverAdmits ==
    Returned =>
        \A i \in DOMAIN scores :
            scores[i].keyword_score = FZero =>
                /\ \A q \in query_tokens, t \in item_tokens_list[i] :
                       Ratio(q, t) = Zero
                /\ scores[i].category_score = FZero
                /\ scores[i].combined_score
                       = FMul(FThreeTenths, scores[i].semantic_score)
                /\ ~FLess(FThreeTenths, scores[i].combined_score)
                /\ PlacesOf(items[i]) = {}

\* C27: with top_k None and one vector per input, the returned list holds
\* exactly the items of the snapshot whose combined_score is greater than
\* 0.3, each once and with its scores, and nothing else
C27_ExactlyTheQualifying ==
    (Returned /\ top_k.isNone /\ Len(vectors) = Len(items) + 1) =>
        /\ DOMAIN scores = DOMAIN items
        /\ \A i \in DOMAIN items :
               /\ scores[i].item = items[i]
               /\ Cardinality(PlacesOf(items[i]))
                      = IF RLess(Rat(3, 10), scores[i].combined_score)
                        THEN 1 ELSE 0
               /\ \A j \in PlacesOf(items[i]) :
                      results.v[j] = ResultOf(scores[i])
        /\ \A j \in DOMAIN results.v :
               \E i \in DOMAIN items : results.v[j].item = items[i]

\* one item qualifies and another does not
C27_Witness ==
    /\ Returned
    /\ top_k.isNone
    /\ Len(vectors) = Len(items) + 1
    /\ Len(results.v) >= 1
    /\ \E i \in DOMAIN scores :
           /\ ~RLess(Rat(3, 10), scores[i].combined_score)
           /\ PlacesOf(items[i]) = {}

\* C28: the sort is stable: of two results the earlier has the greater
\* combined_score, or the same combined_score and the earlier place in the
\* snapshot; so the returned order is determined by the inputs
C28_StableOrder ==
    Returned =>
        \A j, k \in DOMAIN results.v :
            j < k =>
                \/ RLess(results.v[k].combined_score,
                         results.v[j].combined_score)
                \/ /\ results.v[k].combined_score
                          = results.v[j].combined_score
                   /\ IndexOf(results.v[j].item) < IndexOf(results.v[k].item)

\* two results with the same combined_score
C28_Witness ==
    /\ Returned
    /\ \E j, k \in DOMAIN results.v :
           /\ j < k
           /\ results.v[j].combined_score = results.v[k].combined_score

\* the carts that hold the item
CartsOf(item_id) ==
    {row.cart_id : row \in {c \in db.cart_items : c.item_id = item_id}}

\* C29: an inventory item is in at most one cart at any time, under any
\* interleaving of add_to_cart requests of different sessions
C29_AtMostOneCart ==
    \A item_id \in CartItemIds : Cardinality(CartsOf(item_id)) <= 1

\* C30: remove_from_cart leaves the status of an item unchanged when the
\* item was not in the caller's cart: no such request changes a status,
\* and an item that is sold or unlisted is never set back to available
C30_RemoveKeepsStatus == hist.restored = {}

====
